---- MODULE Spec2Model ----
(***************************************************************************)
(* Model of the textanalyzer keyphrase pipeline (DataLama/textanalyzer):   *)
(* grammar post-processing (fusion rules), alignment, Tokenization.__call__*)
(* n-gram candidate generation, the preprocessors, MecabTokenization used  *)
(* by two threads and by successive calls, TF-IDF ranking, the custom      *)
(* dictionary pattern of candidate_generation_lac and the title/content    *)
(* Tokenization.__call__ of candidate_generation_utils.                    *)
(*                                                                         *)
(* Strings are sequences of characters; a character is a TLA+ string that  *)
(* names it.  Chinese characters are written by their pinyin name:         *)
(*   "mei" 没  "fou" 否  "bu" 不  "wei" 未  "nan" 难  "de" 的  "qu" 去       *)
(* ASCII characters are written as themselves ("a", "b", " ", "#", "!");   *)
(* "ga" is the Hangul syllable 가, "fa" the fullwidth letter ａ.            *)
(***************************************************************************)
EXTENDS Integers, Sequences, FiniteSets, TLC

VARIABLES
    fdoc,      \* fusion: the (token, pos) pair of lists last returned / given
    fprev,     \* fusion: the argument of the last fusion call
    fop,       \* fusion: the last call made ("none" before any call)
    fprevop,   \* fusion: the call made before the last one
    ferr,      \* fusion: TRUE when the last call raised (IndexError)
    atext,     \* alignment: the text searched (text argument / self.original_text)
    atoks,     \* alignment: the token texts given to _alignment
    aop,       \* alignment: which _alignment ran ("none", "base", "lac")
    ares,      \* alignment: its outcome [raised, spans]
    craw,      \* __call__: the raw text of the last call
    cengine,   \* __call__: what the tokenizer engine returned in the last call
    cres,      \* __call__: outcome of the last call [state, engine_called, doc]
    cfail,     \* __call__: TRUE when the engine raised in the last call
    gdoc,      \* candidates: the document given to get_candidate
    ggen,      \* candidates: the generator ("none" before the call)
    gN,        \* candidates: its ngram argument
    gout,      \* candidates: outcome of get_candidate [raised, candidates]
    pvariant,  \* _preprocess: the tokenizer class whose _preprocess runs
    ptext,     \* _preprocess: its text argument
    pres,      \* _preprocess: outcome [done, text, trace of (stage, out)]
    shash,     \* MecabTokenization: self._hashtag of the shared instance
    tpc,       \* threads: position of each thread in __call__
    ttext,     \* threads: the text each thread tokenizes
    tsurf,     \* threads: what the engine returned to each thread
    tdoc,      \* threads: outcome of each thread's call [state, doc]
    rinit,     \* ranking: the top_k argument of LacTokenRanking(...)
    rtopk,     \* ranking: self.top_k of the instance
    rcorpus,   \* ranking: the candidates argument of the last get_score
    rres,      \* ranking: outcome of the last get_score [state, keyphrase]
    dwords,    \* preserve pattern: custom_dict of the instance, a list of words
    ddoc,      \* preserve pattern: the (token, pos) pair of lists given
    dop,       \* preserve pattern: "none" before the call, "done" after
    dres,      \* preserve pattern: the (token, pos) pair of lists returned
    utitle,    \* title/content: the titles of two documents
    ucontent,  \* title/content: the content both documents have
    ures       \* title/content: outcome of __call__ on each document

fvars == <<fdoc, fprev, fop, fprevop, ferr>>

avars == <<atext, atoks, aop, ares>>

cvars == <<craw, cengine, cres, cfail>>

gvars == <<gdoc, ggen, gN, gout>>

pvars == <<pvariant, ptext, pres>>

tvars == <<shash, tpc, ttext, tsurf, tdoc>>

rvars == <<rinit, rtopk, rcorpus, rres>>

dvars == <<dwords, ddoc, dop, dres>>

uvars == <<utitle, ucontent, ures>>

vars == <<fdoc, fprev, fop, fprevop, ferr, atext, atoks, aop, ares,
          craw, cengine, cres, cfail, gdoc, ggen, gN, gout,
          pvariant, ptext, pres, shash, tpc, ttext, tsurf, tdoc,
          rinit, rtopk, rcorpus, rres, dwords, ddoc, dop, dres,
          utitle, ucontent, ures>>

(***************************************************************************)
(* Generic helpers on sequences (Python list / str primitives).            *)
(***************************************************************************)
\* ''.join(list of strings)
RECURSIVE Join(_)
Join(ss) == IF ss = <<>> THEN <<>> ELSE Head(ss) \o Join(Tail(ss))

\* all sequences over S of length 0..n
SeqsUpTo(S, n) == UNION { [1..k -> S] : k \in 0..n }

Min(S) == CHOOSE x \in S : \A y \in S : x <= y

\* tok occurs in text at 0-based position s
OccursAt(text, tok, s) ==
    /\ s >= 0
    /\ s + Len(tok) <= Len(text)
    /\ SubSeq(text, s + 1, s + Len(tok)) = tok

\* str.find: 0-based position of the first occurrence of tok in text, or -1
Find(text, tok) ==
    LET hits == { s \in 0..(Len(text) - Len(tok)) : OccursAt(text, tok, s) }
    IN  IF hits = {} THEN -1 ELSE Min(hits)

IsSubstring(text, tok) == Find(text, tok) >= 0

\* text[k:] with a 0-based k
From(text, k) == SubSeq(text, k + 1, Len(text))

\* str.strip(chars)
RECURSIVE LStrip(_, _)
LStrip(text, chars) ==
    IF text # <<>> /\ Head(text) \in chars THEN LStrip(Tail(text), chars) ELSE text

RECURSIVE RStrip(_, _)
RStrip(text, chars) ==
    IF text # <<>> /\ text[Len(text)] \in chars
    THEN RStrip(SubSeq(text, 1, Len(text) - 1), chars)
    ELSE text

StripChars(text, chars) == RStrip(LStrip(text, chars), chars)

\* whitespace of the modelled alphabet
WhiteSpace == {" "}

\* str.strip()
Strip(text) == StripChars(text, WhiteSpace)

\* characters matched by \w in the modelled alphabet
WordChars == {"a", "b", "qu", "1", "ga"}

(***************************************************************************)
(* Grammar Postprocessor: tokenization_lac.LACTokenization                 *)
(***************************************************************************)
\* neg_tok = set('没否不未难')
neg_tok == {"mei", "fou", "bu", "wei", "nan"}

\* sub_pos of rule 1
sub_pos_1 == {"v", "vd", "vn", "a", "an", "ad"}

\* sub_pos of rule 2
sub_pos_2 == {"v", "vd", "vn"}

\* `t_now in neg_tok`: t_now is a str, neg_tok a set of one-character strs
InNegTok(t) == Len(t) = 1 /\ t[1] \in neg_tok

\* rule 1 condition of the loop body, i is the 1-based index of t_now
Rule1CondNoTag(token, pos, i) == InNegTok(token[i])

Rule1Cond(token, pos, i) == InNegTok(token[i]) /\ pos[i+1] \in sub_pos_1

\* rule 2 condition of the loop body: (pos[i] in sub_pos) and (t_next == '的')
Rule2CondNoTag(token, pos, i) == token[i+1] = <<"de">>

Rule2Cond(token, pos, i) == pos[i] \in sub_pos_2 /\ token[i+1] = <<"de">>

\* tag appended for a fused pair
Rule1FusedPos(pos, i) == pos[i+1]

Rule2FusedPos(pos, i) == pos[i+1]

\* the for loop of _postproc_rule_1 over zip(token, token[1:]);
\* st = [skip, new_token, new_pos]
RECURSIVE Rule1Loop(_, _, _, _)
Rule1Loop(token, pos, i, st) ==
    IF i > Len(token) - 1 THEN st
    ELSE IF st.skip
         THEN Rule1Loop(token, pos, i + 1, [st EXCEPT !.skip = FALSE])
    ELSE IF Rule1Cond(token, pos, i)
         THEN Rule1Loop(token, pos, i + 1,
                  [skip |-> TRUE,
                   new_token |-> Append(st.new_token, token[i] \o token[i+1]),
                   new_pos |-> Append(st.new_pos, Rule1FusedPos(pos, i))])
    ELSE Rule1Loop(token, pos, i + 1,
                  [skip |-> FALSE,
                   new_token |-> Append(st.new_token, token[i]),
                   new_pos |-> Append(st.new_pos, pos[i])])

RECURSIVE Rule2Loop(_, _, _, _)
Rule2Loop(token, pos, i, st) ==
    IF i > Len(token) - 1 THEN st
    ELSE IF st.skip
         THEN Rule2Loop(token, pos, i + 1, [st EXCEPT !.skip = FALSE])
    ELSE IF Rule2Cond(token, pos, i)
         THEN Rule2Loop(token, pos, i + 1,
                  [skip |-> TRUE,
                   new_token |-> Append(st.new_token, token[i] \o token[i+1]),
                   new_pos |-> Append(st.new_pos, Rule2FusedPos(pos, i))])
    ELSE Rule2Loop(token, pos, i + 1,
                  [skip |-> FALSE,
                   new_token |-> Append(st.new_token, token[i]),
                   new_pos |-> Append(st.new_pos, pos[i])])

\* the tail of both rules: `if not skip: new_token.append(token[-1]) ...`
\* token[-1] raises IndexError on an empty list.
FuseFinishNeverAppend(token, pos, st) ==
    [raised |-> FALSE, token |-> st.new_token, pos |-> st.new_pos]

FuseFinish(token, pos, st) ==
    IF st.skip
    THEN [raised |-> FALSE, token |-> st.new_token, pos |-> st.new_pos]
    ELSE IF Len(token) = 0
    THEN [raised |-> TRUE, token |-> <<>>, pos |-> <<>>]
    ELSE [raised |-> FALSE,
          token |-> Append(st.new_token, token[Len(token)]),
          pos |-> Append(st.new_pos, pos[Len(pos)])]

FuseStart == [skip |-> FALSE, new_token |-> <<>>, new_pos |-> <<>>]

\* _postproc_rule_1(doc), doc = [token, pos]
postproc_rule_1(doc) ==
    FuseFinish(doc.token, doc.pos, Rule1Loop(doc.token, doc.pos, 1, FuseStart))

\* _postproc_rule_2(doc)
postproc_rule_2(doc) ==
    FuseFinish(doc.token, doc.pos, Rule2Loop(doc.token, doc.pos, 1, FuseStart))

\* _postprocess(doc): rule 1, then rule 2 on its result
postprocess_lac(doc) ==
    LET r1 == postproc_rule_1(doc)
    IN  IF r1.raised THEN r1
        ELSE postproc_rule_2([token |-> r1.token, pos |-> r1.pos])

(***************************************************************************)
(* Each specification exercises one component; the state of the others     *)
(* stays at these values.                                                  *)
(***************************************************************************)
FuseIdle ==
    /\ fdoc = [token |-> <<>>, pos |-> <<>>]
    /\ fprev = [token |-> <<>>, pos |-> <<>>]
    /\ fop = "none"
    /\ fprevop = "none"
    /\ ferr = FALSE

AlignIdle ==
    /\ atext = <<>>
    /\ atoks = <<>>
    /\ aop = "none"
    /\ ares = [raised |-> FALSE, spans |-> <<>>]

NoDoc == [Id |-> "", text |-> <<>>, Tokens |-> <<>>, tokenizable |-> FALSE]

CallIdle ==
    /\ craw = <<>>
    /\ cengine = <<>>
    /\ cres = [state |-> "none", engine_called |-> FALSE, doc |-> NoDoc]
    /\ cfail = FALSE

CandIdle ==
    /\ gdoc = [present |-> FALSE, tokens |-> <<>>]
    /\ ggen = "none"
    /\ gN = 1
    /\ gout = [raised |-> FALSE, candidates |-> <<>>]

PreIdle ==
    /\ pvariant = "none"
    /\ ptext = <<>>
    /\ pres = [done |-> FALSE, text |-> <<>>, trace |-> <<>>]

Threads == {1, 2}

NoCall == [state |-> "none", doc |-> NoDoc]

ThreadIdle ==
    /\ shash = <<>>
    /\ tpc = [i \in Threads |-> "start"]
    /\ ttext = [i \in Threads |-> <<>>]
    /\ tsurf = [i \in Threads |-> <<>>]
    /\ tdoc = [i \in Threads |-> NoCall]

\* top_k = None
NoTopK == [supplied |-> FALSE, value |-> 0]

RankIdle ==
    /\ rinit = NoTopK
    /\ rtopk = NoTopK
    /\ rcorpus = <<>>
    /\ rres = [state |-> "none", keyphrase |-> <<>>]

PatIdle ==
    /\ dwords = <<>>
    /\ ddoc = [token |-> <<>>, pos |-> <<>>]
    /\ dop = "none"
    /\ dres = [token |-> <<>>, pos |-> <<>>]

\* the two documents of the title/content comparison
Docs == {1, 2}

NoFeature == [state |-> "none", title_tokens |-> <<>>, title_pos |-> <<>>,
              content_tokens |-> <<>>, content_pos |-> <<>>]

TitleIdle ==
    /\ utitle = [i \in Docs |-> <<>>]
    /\ ucontent = <<>>
    /\ ures = [i \in Docs |-> NoFeature]

(***************************************************************************)
(* Specification SpecFuse: the fusion rules applied to bounded inputs,     *)
(* and re-applied to their own output.                                     *)
(***************************************************************************)
MaxFuseLen == 3

FuseChars == {"bu", "qu", "de"}

FuseTags == {"v", "a", "u"}

FuseInputs ==
    UNION { { [token |-> [i \in 1..k |-> <<c[i]>>], pos |-> p] :
                c \in [1..k -> FuseChars], p \in [1..k -> FuseTags] }
            : k \in 0..MaxFuseLen }

FuseInit ==
    /\ fdoc \in FuseInputs
    /\ fprev = [token |-> <<>>, pos |-> <<>>]
    /\ fop = "none"
    /\ fprevop = "none"
    /\ ferr = FALSE
    /\ AlignIdle
    /\ CallIdle
    /\ CandIdle
    /\ PreIdle
    /\ ThreadIdle
    /\ RankIdle
    /\ PatIdle
    /\ TitleIdle

FuseApply(op, r) ==
    /\ ferr = FALSE
    /\ UNCHANGED <<avars, cvars, gvars, pvars, tvars, rvars, dvars, uvars>>
    /\ fprev' = fdoc
    /\ fprevop' = fop
    /\ fop' = op
    /\ ferr' = r.raised
    /\ fdoc' = IF r.raised THEN fdoc ELSE [token |-> r.token, pos |-> r.pos]

CallRule1 == FuseApply("rule1", postproc_rule_1(fdoc))

CallRule2 == FuseApply("rule2", postproc_rule_2(fdoc))

CallPostprocess == FuseApply("postprocess", postprocess_lac(fdoc))

FuseNext == CallRule1 \/ CallRule2 \/ CallPostprocess

SpecFuse == FuseInit /\ [][FuseNext]_vars

(***************************************************************************)
(* Claims about the fusion rules (checked under SpecFuse).                 *)
(***************************************************************************)
\* the last call was one pass of a single fusion rule on a non-empty input
RulePassOnNonEmpty == fop \in {"rule1", "rule2"} /\ Len(fprev.token) > 0

\* out is obtained from inp by replacing disjoint adjacent pairs by their
\* concatenation and keeping every other entry, in order
RECURSIVE IsGrouping(_, _)
IsGrouping(inp, out) ==
    IF inp = <<>> THEN out = <<>>
    ELSE /\ out # <<>>
         /\ \/ Head(out) = Head(inp) /\ IsGrouping(Tail(inp), Tail(out))
            \/ /\ Len(inp) >= 2
               /\ Head(out) = inp[1] \o inp[2]
               /\ IsGrouping(Tail(Tail(inp)), Tail(out))

\* C2: one pass of a fusion rule over a non-empty sequence does not raise,
\* emits every input token exactly once (alone or as half of one fused pair)
\* in the original order, keeps the concatenated text, and the last input
\* token is present in the output (alone or as the right half of the last
\* output entry).
C2_FusionConservesTokens ==
    RulePassOnNonEmpty =>
        /\ ~ferr
        /\ IsGrouping(fprev.token, fdoc.token)
        /\ Join(fdoc.token) = Join(fprev.token)
        /\ Len(fdoc.token) > 0
        /\ LET n == Len(fprev.token)
               m == Len(fdoc.token)
           IN  \/ fdoc.token[m] = fprev.token[n]
               \/ n >= 2 /\ fdoc.token[m] = fprev.token[n-1] \o fprev.token[n]
        /\ Len(fdoc.pos) = Len(fdoc.token)

\* C2 witness: [bu, qu/v, de] -> [buqu/v, de]: the first pair is fused and
\* the last token is appended unmerged.
C2_Witness ==
    /\ fop = "rule1"
    /\ fprev.token = << <<"bu">>, <<"qu">>, <<"de">> >>
    /\ fprev.pos = <<"u", "v", "u">>
    /\ fdoc.token = << <<"bu", "qu">>, <<"de">> >>
    /\ fdoc.pos = <<"v", "u">>

\* The claimed fusion predicates, stated on their own.
ClaimNegators == {"mei", "fou", "bu", "wei", "nan"}

ClaimVerbAdjTags == {"v", "vd", "vn", "a", "an", "ad"}

ClaimVerbTags == {"v", "vd", "vn"}

ClaimPred1(d, i) ==
    /\ i < Len(d.token)
    /\ \E c \in ClaimNegators : d.token[i] = <<c>>
    /\ d.pos[i+1] \in ClaimVerbAdjTags

ClaimPred2(d, i) ==
    /\ i < Len(d.token)
    /\ d.pos[i] \in ClaimVerbTags
    /\ d.token[i+1] = <<"de">>

ClaimPred(rule, d, i) == IF rule = 1 THEN ClaimPred1(d, i) ELSE ClaimPred2(d, i)

\* token i starts a fused pair: it was not consumed by a fusion of (i-1, i)
\* and the pair (i, i+1) matches the rule's predicate
RECURSIVE ClaimFusedAt(_, _, _)
ClaimFusedAt(rule, d, i) ==
    /\ i >= 1
    /\ ClaimPred(rule, d, i)
    /\ ~ClaimFusedAt(rule, d, i - 1)

\* the entries the claim expects, token by token
ClaimEntries(rule, d) ==
    [i \in 1..Len(d.token) |->
        IF ClaimFusedAt(rule, d, i - 1) THEN <<>>
        ELSE IF ClaimFusedAt(rule, d, i)
             THEN << [text |-> d.token[i] \o d.token[i+1], tag |-> d.pos[i+1]] >>
        ELSE << [text |-> d.token[i], tag |-> d.pos[i]] >>]

ClaimExpected(rule, d) == Join(ClaimEntries(rule, d))

DocEntries(d) == [i \in 1..Len(d.token) |-> [text |-> d.token[i], tag |-> d.pos[i]]]

\* C3: rule 1 fuses (i, i+1) exactly when token i was not consumed by a
\* fusion of (i-1, i), token i is a negator and the tag of token i+1 is a
\* verb/adjective tag; the fused entry has the concatenated text and the tag
\* of token i+1; every other entry keeps its own text and tag.
C3_Rule1FusesExactly ==
    (fop = "rule1" /\ Len(fprev.token) > 0) =>
        /\ ~ferr
        /\ Len(fdoc.pos) = Len(fdoc.token)
        /\ DocEntries(fdoc) = ClaimExpected(1, fprev)

\* C3 witness: [bu/u, bu/v, qu/v] -> [bubu/v, qu/v]: the second negator was
\* consumed by the first fusion, so (2, 3) is not fused although it matches.
C3_Witness ==
    /\ fop = "rule1"
    /\ fprev.token = << <<"bu">>, <<"bu">>, <<"qu">> >>
    /\ fprev.pos = <<"u", "v", "v">>
    /\ fdoc.token = << <<"bu", "bu">>, <<"qu">> >>
    /\ fdoc.pos = <<"v", "v">>

\* C4: rule 2 fuses (i, i+1) exactly when token i was not consumed by a
\* fusion of (i-1, i), the tag of token i is a verb tag and token i+1 is the
\* particle de; the fused entry has the concatenated text and the tag of the
\* particle; every other entry is emitted unchanged.
C4_Rule2FusesExactly ==
    (fop = "rule2" /\ Len(fprev.token) > 0) =>
        /\ ~ferr
        /\ Len(fdoc.pos) = Len(fdoc.token)
        /\ DocEntries(fdoc) = ClaimExpected(2, fprev)

\* C4 witness: [qu/v, de/u, qu/a] -> [qude/u, qu/a]
C4_Witness ==
    /\ fop = "rule2"
    /\ fprev.token = << <<"qu">>, <<"de">>, <<"qu">> >>
    /\ fprev.pos = <<"v", "u", "a">>
    /\ fdoc.token = << <<"qu", "de">>, <<"qu">> >>
    /\ fdoc.pos = <<"u", "a">>

\* the last two calls were _postprocess, the second on the first one's output
PostprocessTwice == fop = "postprocess" /\ fprevop = "postprocess" /\ ~ferr

\* no adjacent pair of d matches the predicate of rule 1 or of rule 2
NoPairMatches(d) ==
    \A i \in 1..(Len(d.token) - 1) : ~ClaimPred1(d, i) /\ ~ClaimPred2(d, i)

\* C5 as claimed: running _postprocess on its own output yields the same
\* sequence of (text, tag) entries, for every input sequence.
C5_IdempotentAlways == PostprocessTwice => fdoc = fprev

\* C5 as amended: running _postprocess on its own output yields the same
\* sequence whenever no adjacent pair of that output matches the predicate
\* of rule 1 or rule 2.
C5_IdempotentOnceNoPairMatches ==
    (PostprocessTwice /\ NoPairMatches(fprev)) => fdoc = fprev

\* C5 witness: a second run over an output that holds a fused token and in
\* which no pair matches any more.
C5_Witness ==
    /\ PostprocessTwice
    /\ NoPairMatches(fprev)
    /\ \E i \in 1..Len(fprev.token) : Len(fprev.token[i]) >= 2
    /\ Len(fprev.token) >= 2

\* C28: applied to an empty token sequence, _postproc_rule_1 and
\* _postproc_rule_2 return an empty token list and an empty tag list and
\* do not raise.
C28_RulesAcceptEmptyInput ==
    (fop \in {"rule1", "rule2"} /\ fprev.token = <<>>) =>
        /\ ~ferr
        /\ fdoc = [token |-> <<>>, pos |-> <<>>]

(***************************************************************************)
(* Alignment Engine.                                                       *)
(*   process_utils.Tokenization._alignment(text, tokens)   ("base")        *)
(*   tokenization_lac.LACTokenization._alignment(doc)      ("lac"; the     *)
(*   same code is SoynlpTokenization._alignment in tokenization_ko)        *)
(* A result is [raised, spans]; raised models the exception leaving the    *)
(* function: ValueError of str.index in the base version, AttributeError   *)
(* of `re.search(...).start()` on None in the fallback of the lac version. *)
(* The lac version reads self.original_text, which no method of the class  *)
(* assigns; the model takes it as set by the caller to the text searched.  *)
(***************************************************************************)
AlignRaised == [raised |-> TRUE, spans |-> <<>>]

\* the tuple appended by the base version
BaseSpanNoOffset(offset, start, tok) ==
    [start |-> start, end |-> start + Len(tok)]

BaseSpan(offset, start, tok) ==
    [start |-> offset + start, end |-> offset + start + Len(tok)]

\* the for loop of Tokenization._alignment; tokens are (text, feature) pairs
RECURSIVE AlignBaseLoop(_, _, _, _)
AlignBaseLoop(text, tokens, offset, token_indices) ==
    IF tokens = <<>> THEN [raised |-> FALSE, spans |-> token_indices]
    ELSE LET tok == Head(tokens).text
             start == Find(text, tok)
         IN  IF start < 0 THEN AlignRaised
             ELSE AlignBaseLoop(From(text, start + Len(tok)), Tail(tokens),
                                offset + start + Len(tok),
                                Append(token_indices, BaseSpan(offset, start, tok)))

alignment_base(text, tokens) == AlignBaseLoop(text, tokens, 0, <<>>)

\* the else branch of the lac version: one search per character of the
\* token, each from the start of sliced_text; raises when a character does
\* not occur in sliced_text
LacFallback(sliced_text, token, i) ==
    IF \E k \in 1..Len(token) : Find(sliced_text, <<token[k]>>) < 0
    THEN [raised |-> TRUE, l_offset |-> <<>>, start |-> 0]
    ELSE [raised |-> FALSE,
          l_offset |-> [k \in 1..Len(token) |-> i + Find(sliced_text, <<token[k]>>)],
          start |-> Find(sliced_text, <<token[Len(token)]>>)]

\* the keys of the escape table of the lac version: '$()*+.?[]\^{}|-'
lac_re_meta ==
    {"$", "(", ")", "*", "+", ".", "?", "[", "]", "\\", "^", "{", "}", "|", "-"}

\* the pattern built from a token: one element per character, escaped when
\* the character is a key of the table
lac_pattern(token) ==
    [k \in 1..Len(token) |-> [ch |-> token[k], escaped |-> token[k] \in lac_re_meta]]

\* one pattern element against one character: an unescaped "." is the
\* wildcard, every other element of the modelled alphabet is a literal
ElementMatches(el, c) == IF ~el.escaped /\ el.ch = "." THEN TRUE ELSE c = el.ch

PatternMatchesAt(pattern, text, s) ==
    /\ s + Len(pattern) <= Len(text)
    /\ \A k \in 1..Len(pattern) : ElementMatches(pattern[k], text[s + k])

\* re.search(pattern, text).start(), -1 for None
re_search(pattern, text) ==
    IF \E s \in 0..Len(text) : PatternMatchesAt(pattern, text, s)
    THEN Min({s \in 0..Len(text) : PatternMatchesAt(pattern, text, s)})
    ELSE -1

\* the for loop of LACTokenization._alignment; tokens are strs.  The pattern
\* is the token with every regex metacharacter escaped before re.search.
RECURSIVE AlignLacLoop(_, _, _, _)
AlignLacLoop(original_text, tokens, i, offsets) ==
    IF tokens = <<>> THEN [raised |-> FALSE, spans |-> offsets]
    ELSE LET token == Head(tokens)
             sliced_text == From(original_text, i)
             start == re_search(lac_pattern(token), sliced_text)
         IN  IF start >= 0
             THEN AlignLacLoop(original_text, Tail(tokens), i + start + Len(token),
                      Append(offsets, [kind |-> "start", start |-> i + start,
                                       chars |-> <<>>]))
             ELSE LET fb == LacFallback(sliced_text, token, i)
                  IN  IF fb.raised THEN AlignRaised
                      ELSE AlignLacLoop(original_text, Tail(tokens), i + fb.start,
                               Append(offsets, [kind |-> "chars", start |-> -1,
                                                chars |-> fb.l_offset]))

alignment_lac(original_text, tokens) == AlignLacLoop(original_text, tokens, 0, <<>>)

(***************************************************************************)
(* Specification SpecAlign: _alignment applied to bounded texts and token  *)
(* sequences (tokens need not come from the text).                         *)
(***************************************************************************)
MaxAlignText == 3

MaxAlignToks == 2

MaxAlignTokLen == 2

AlignTextChars == {"a", "b", "."}

AlignTokChars == {"a", "b", "c", "."}

AlignTokens == UNION { [1..k -> AlignTokChars] : k \in 1..MaxAlignTokLen }

AlignInit ==
    /\ atext \in SeqsUpTo(AlignTextChars, MaxAlignText)
    /\ atoks \in SeqsUpTo(AlignTokens, MaxAlignToks)
    /\ aop = "none"
    /\ ares = [raised |-> FALSE, spans |-> <<>>]
    /\ FuseIdle
    /\ CallIdle
    /\ CandIdle
    /\ PreIdle
    /\ ThreadIdle
    /\ RankIdle
    /\ PatIdle
    /\ TitleIdle

RunAlignBase ==
    /\ aop = "none"
    /\ aop' = "base"
    /\ ares' = alignment_base(atext,
                   [k \in 1..Len(atoks) |-> [text |-> atoks[k], feature |-> "NNG"]])
    /\ UNCHANGED <<atext, atoks, fvars, cvars, gvars, pvars, tvars, rvars, dvars, uvars>>

RunAlignLac ==
    /\ aop = "none"
    /\ aop' = "lac"
    /\ ares' = alignment_lac(atext, atoks)
    /\ UNCHANGED <<atext, atoks, fvars, cvars, gvars, pvars, tvars, rvars, dvars, uvars>>

AlignNext == RunAlignBase \/ RunAlignLac

SpecAlign == AlignInit /\ [][AlignNext]_vars

\* C6: when every token's text is a substring of the text, _alignment does
\* not raise and returns exactly one span per token.
C6_AlignNeverRaisesOnSubstrings ==
    (aop # "none" /\ \A k \in 1..Len(atoks) : IsSubstring(atext, atoks[k])) =>
        /\ ~ares.raised
        /\ Len(ares.spans) = Len(atoks)

\* an entry of the result that is a per-character position list
IsCharList(entry) == "chars" \in DOMAIN entry /\ entry.kind = "chars"

\* C7: when a token's text has no contiguous occurrence in the text (hence
\* none in the remaining text), _alignment does not raise, records for that
\* token a list of positions with one position per character, and returns
\* an entry for every token.
C7_AlignFallsBackPerCharacter ==
    (aop # "none" /\ \E k \in 1..Len(atoks) : ~IsSubstring(atext, atoks[k])) =>
        /\ ~ares.raised
        /\ Len(ares.spans) = Len(atoks)
        /\ \A k \in 1..Len(atoks) :
               ~IsSubstring(atext, atoks[k]) =>
                   /\ IsCharList(ares.spans[k])
                   /\ Len(ares.spans[k].chars) = Len(atoks[k])

\* the end of the span of the k-th token as the search cursor sees it
SpanEndBefore(k) == IF k = 1 THEN 0 ELSE ares.spans[k - 1].start + Len(atoks[k - 1])

\* C22: when every token was located by the content search, the entry
\* recorded for a token is the pair (s, s + len(token)) with s the first
\* literal occurrence of the token at or after the end of the previous
\* token's span, so text[start:end] is the token's text, regex
\* metacharacters included.
C22_SpanIsFirstLiteralOccurrence ==
    (/\ aop # "none"
     /\ ~ares.raised
     /\ \A k \in 1..Len(ares.spans) : ~IsCharList(ares.spans[k])) =>
        /\ Len(ares.spans) = Len(atoks)
        /\ \A k \in 1..Len(atoks) :
               LET e == ares.spans[k]
               IN  /\ "end" \in DOMAIN e
                   /\ e.start = SpanEndBefore(k)
                                   + Find(From(atext, SpanEndBefore(k)), atoks[k])
                   /\ e.end = e.start + Len(atoks[k])
                   /\ SubSeq(atext, e.start + 1, e.end) = atoks[k]

(***************************************************************************)
(* Normalizer and Preprocessor of tokenization_mecab.MecabTokenization, the *)
(* tokenizer whose hooks have the shapes Tokenization.__call__ expects      *)
(* (_alignment(text, tokens) of the base class, tokens as (text, feature)   *)
(* pairs).  The modelled alphabet is "a", "b", " ", "#", "ga" (a Hangul    *)
(* syllable) and "qu" (a CJK character): no URL, e-mail address, emoji,     *)
(* mention or image placeholder can be written with it, so those            *)
(* substitutions leave the text unchanged.                                  *)
(***************************************************************************)
\* characters outside the class KoPreprocessing.pattern removes
KoKept == {"a", "b", " ", "#", "ga"}

\* KoPreprocessing.normalize_korean_pattern: NFKC, then pattern.sub('', text)
RECURSIVE normalize_korean_pattern(_)
normalize_korean_pattern(text) ==
    IF text = <<>> THEN <<>>
    ELSE IF Head(text) \in KoKept
         THEN <<Head(text)>> \o normalize_korean_pattern(Tail(text))
         ELSE normalize_korean_pattern(Tail(text))

\* soynlp repeat_normalize: a run of three or more of one word character
\* becomes num_repeats of it
RECURSIVE CollapseRepeats(_, _)
CollapseRepeats(text, num_repeats) ==
    IF text = <<>> THEN <<>>
    ELSE IF /\ Len(text) > num_repeats
            /\ Head(text) \in WordChars
            /\ \A k \in 1..(num_repeats + 1) : text[k] = Head(text)
         THEN CollapseRepeats(Tail(text), num_repeats)
         ELSE <<Head(text)>> \o CollapseRepeats(Tail(text), num_repeats)

\* soynlp repeat_normalize: a run of whitespace becomes one space
RECURSIVE CollapseSpaces(_)
CollapseSpaces(text) ==
    IF text = <<>> THEN <<>>
    ELSE IF Head(text) \in WhiteSpace
         THEN <<" ">> \o CollapseSpaces(LStrip(Tail(text), WhiteSpace))
         ELSE <<Head(text)>> \o CollapseSpaces(Tail(text))

num_repeats == 3

repeat_normalize(text) == Strip(CollapseSpaces(CollapseRepeats(text, num_repeats)))

\* MecabTokenization._normalize
normalize(text) == Strip(repeat_normalize(normalize_korean_pattern(text)))

\* KoPreprocessing._re_meta = "$()*+.?[\^{|"
re_meta == {"$", "(", ")", "*", "+", ".", "?", "[", "\\", "^", "{", "|"}

\* the longest run of hashtag-body characters ([emojis \w -]+) at the head
RECURSIVE WordPrefix(_)
WordPrefix(text) ==
    IF text # <<>> /\ Head(text) \in WordChars
    THEN <<Head(text)>> \o WordPrefix(Tail(text))
    ELSE <<>>

\* KoPreprocessing.hashtag.findall(text): the bodies of the matches of
\* #([emojis \w -]+), left to right, non-overlapping
RECURSIVE hashtag_findall(_)
hashtag_findall(text) ==
    IF text = <<>> THEN <<>>
    ELSE IF Head(text) = "#" /\ WordPrefix(Tail(text)) # <<>>
         THEN <<WordPrefix(Tail(text))>>
              \o hashtag_findall(From(text, 1 + Len(WordPrefix(Tail(text)))))
         ELSE hashtag_findall(Tail(text))

\* re.compile(pat).sub(repl, text) for a literal pattern
RECURSIVE ReSub(_, _, _)
ReSub(pat, repl, text) ==
    IF text = <<>> THEN <<>>
    ELSE IF OccursAt(text, pat, 0)
         THEN repl \o ReSub(pat, repl, From(text, Len(pat)))
         ELSE <<Head(text)>> \o ReSub(pat, repl, Tail(text))

\* the loop of KoPreprocessing.replace_hashtag over the hashtags found
RECURSIVE ReplaceHashtagLoop(_, _)
ReplaceHashtagLoop(hts, text) ==
    IF hts = <<>> THEN text
    ELSE LET ht == StripChars(Head(hts), re_meta)
         IN  ReplaceHashtagLoop(Tail(hts),
                 ReSub(<<"#">> \o ht, <<" ">> \o ht \o <<" ">>, text))

replace_hashtag(text) == ReplaceHashtagLoop(hashtag_findall(text), text)

\* MecabTokenization._preprocess
preprocess(text) == Strip(replace_hashtag(text))

(***************************************************************************)
(* Tokenizer engine (external collaborator, MeCab): it segments the text   *)
(* into non-empty surface tokens that contain no whitespace, in text       *)
(* order, covering every non-space character.  Which segmentation it picks *)
(* is left open.  _postprocess attaches the feature dict to each token.    *)
(***************************************************************************)
\* all ways to cut a whitespace-free text into consecutive non-empty pieces
RECURSIVE Pieces(_)
Pieces(word) ==
    IF word = <<>> THEN { <<>> }
    ELSE UNION { { <<SubSeq(word, 1, k)>> \o rest : rest \in Pieces(From(word, k)) }
                 : k \in 1..Len(word) }

\* the characters up to the first whitespace
RECURSIVE FirstWord(_)
FirstWord(text) ==
    IF text # <<>> /\ Head(text) \notin WhiteSpace
    THEN <<Head(text)>> \o FirstWord(Tail(text))
    ELSE <<>>

RECURSIVE mecab_parse(_)
mecab_parse(text) ==
    IF text = <<>> THEN { <<>> }
    ELSE IF Head(text) \in WhiteSpace THEN mecab_parse(Tail(text))
    ELSE LET w == FirstWord(text)
         IN  { first \o rest : first \in Pieces(w),
                               rest \in mecab_parse(From(text, Len(w))) }

\* tokenize(text) = _postprocess(_tokenize(text)): (token, feature) pairs
tokenize(surfaces) == [k \in 1..Len(surfaces) |-> [text |-> surfaces[k], feature |-> "NNG"]]

(***************************************************************************)
(* process_utils.Tokenization.__call__                                     *)
(***************************************************************************)
\* the '_space' feature set in the loop of __call__
space_feature(tok, end, normalized_text) ==
    (end < Len(tok)) /\ normalized_text[end + 1] = " "

\* the Token built for one (tok, feature), (start, end) pair
make_token(Id, offset, tok, span, normalized_text) ==
    [DocId |-> Id, offset |-> offset, start |-> span.start, end |-> span.end,
     text |-> tok.text, pos |-> tok.feature,
     space |-> space_feature(tok.text, span.end, normalized_text)]

\* the guard `if text:` ... `if preprocessed_text:` of __call__
Tokenizable(text, preprocessed_text) == text # <<>> /\ preprocessed_text # <<>>

\* __call__ guarded by neither test: the engine is always invoked
call_skips_engine_never(text, preprocessed_text) == FALSE

\* TRUE when __call__ takes a branch that does not invoke the engine
call_skips_engine(text, preprocessed_text) == ~Tokenizable(text, preprocessed_text)

\* __call__ on (Id, text); surfaces is what the engine returns if invoked
Tokenization_call(Id, text, surfaces) ==
    LET normalized_text == normalize(text)
        preprocessed_text == preprocess(normalized_text)
    IN  IF call_skips_engine(text, preprocessed_text)
        THEN [state |-> "returned", engine_called |-> FALSE,
              doc |-> [Id |-> Id, text |-> normalized_text, Tokens |-> <<>>,
                       tokenizable |-> FALSE]]
        ELSE LET tokens == tokenize(surfaces)
                 al == alignment_base(normalized_text, tokens)
             IN  IF al.raised
                 THEN [state |-> "raised", engine_called |-> TRUE, doc |-> NoDoc]
                 ELSE [state |-> "returned", engine_called |-> TRUE,
                       doc |-> [Id |-> Id, text |-> normalized_text,
                                Tokens |-> [k \in 1..Len(tokens) |->
                                    make_token(Id, k - 1, tokens[k], al.spans[k],
                                               normalized_text)],
                                tokenizable |-> TRUE]]

\* __call__ on (Id, text) when the engine raises inside self.tokenize: the
\* statement `tokens = self.tokenize(preprocessed_text)` stands in no try block
Tokenization_call_engine_raises(Id, text) ==
    LET normalized_text == normalize(text)
        preprocessed_text == preprocess(normalized_text)
    IN  IF call_skips_engine(text, preprocessed_text)
        THEN Tokenization_call(Id, text, <<>>)
        ELSE [state |-> "raised", engine_called |-> TRUE, doc |-> NoDoc]

(***************************************************************************)
(* Specification SpecCall: one tokenizer instance called on bounded texts. *)
(***************************************************************************)
MaxRawLen == 4

RawChars == {"a", "b", " ", "#", "qu"}

RawTexts == SeqsUpTo(RawChars, MaxRawLen)

\* Tokenization.__call__ keeps no state between calls: every run is one
\* call on a text chosen at the start
CallInit ==
    /\ craw \in RawTexts
    /\ cengine = <<>>
    /\ cres = [state |-> "none", engine_called |-> FALSE, doc |-> NoDoc]
    /\ cfail = FALSE
    /\ FuseIdle
    /\ AlignIdle
    /\ CandIdle
    /\ PreIdle
    /\ ThreadIdle
    /\ RankIdle
    /\ PatIdle
    /\ TitleIdle

\* tokenizer(text): __call__ with a str argument
Call ==
    /\ cres.state = "none"
    /\ \E surfaces \in mecab_parse(preprocess(normalize(craw))) :
         /\ cres' = Tokenization_call("id", craw, surfaces)
         /\ cengine' = IF cres'.engine_called THEN surfaces ELSE <<>>
    /\ UNCHANGED <<craw, cfail, fvars, avars, gvars, pvars, tvars, rvars, dvars, uvars>>

\* tokenizer(text) when the engine (MeCab, LAC, soynlp) fails on the text
CallEngineRaises ==
    /\ cres.state = "none"
    /\ ~call_skips_engine(craw, preprocess(normalize(craw)))
    /\ cres' = Tokenization_call_engine_raises("id", craw)
    /\ cengine' = <<>>
    /\ cfail' = TRUE
    /\ UNCHANGED <<craw, fvars, avars, gvars, pvars, tvars, rvars, dvars, uvars>>

CallNext == Call \/ CallEngineRaises

SpecCall == CallInit /\ [][CallNext]_vars

TokensOf(r) == r.doc.Tokens

\* C1: in every Doc returned for a tokenizable input the tokens are ordered
\* by increasing start, consecutive tokens do not overlap, and every token
\* satisfies 0 <= start < end <= len(Doc.text).
C1_TokensOrderedInBounds ==
    (cres.state = "returned" /\ cres.doc.tokenizable) =>
        LET T == TokensOf(cres)
        IN  /\ \A k \in 1..Len(T) :
                   /\ 0 <= T[k].start
                   /\ T[k].start < T[k].end
                   /\ T[k].end <= Len(cres.doc.text)
            /\ \A k \in 1..(Len(T) - 1) :
                   /\ T[k].start < T[k+1].start
                   /\ T[k].end <= T[k+1].start

\* C1 witness: "#ab a" is tokenized over the preprocessed text "ab  a" and
\* the tokens ab, a are located at [1,3) and [4,5) of the normalized text.
C1_Witness ==
    /\ cres.state = "returned"
    /\ cres.doc.tokenizable
    /\ Len(TokensOf(cres)) >= 2
    /\ cres.doc.text # preprocess(cres.doc.text)
    /\ \E k \in 1..(Len(TokensOf(cres)) - 1) :
           TokensOf(cres)[k].end < TokensOf(cres)[k+1].start

\* C10: when the raw text is empty, or preprocessing leaves the empty
\* string, __call__ does not invoke the engine and returns (without
\* raising) a Doc with the tokenizable flag false and no tokens.
C10_EmptyTextSkipsEngine ==
    (cres.state # "none" /\ (craw = <<>> \/ preprocess(normalize(craw)) = <<>>)) =>
        /\ cres.state = "returned"
        /\ ~cres.engine_called
        /\ ~cres.doc.tokenizable
        /\ cres.doc.Tokens = <<>>

\* C10 witness: a non-empty raw text which normalisation empties
C10_Witness ==
    /\ cres.state = "returned"
    /\ craw # <<>>
    /\ preprocess(normalize(craw)) = <<>>
    /\ ~cres.doc.tokenizable

\* C29: for every token created by __call__, the '_space' feature is True
\* exactly when the token does not end at the end of the normalized text
\* and the character of the normalized text at index end is a space.
C29_SpaceFeatureMarksFollowingSpace ==
    (cres.state = "returned" /\ cres.doc.tokenizable) =>
        \A k \in 1..Len(TokensOf(cres)) :
            LET t == TokensOf(cres)[k]
            IN  t.space = (/\ t.end < Len(cres.doc.text)
                           /\ cres.doc.text[t.end + 1] = " ")

\* C19: an exception of the external tokenizer engine on a document does
\* not propagate out of __call__: the call returns a Doc whose tokenizable
\* flag is false and whose token list is empty.
C19_EngineFailureIsContained ==
    (cres.state # "none" /\ cfail) =>
        /\ cres.state = "returned"
        /\ ~cres.doc.tokenizable
        /\ cres.doc.Tokens = <<>>

(***************************************************************************)
(* Candidate Generator.                                                    *)
(*   "lac_str" candidate_generation_lac.LacTCG  (lists of strs, n-grams    *)
(*             are concatenated texts; the content part of get_candidate   *)
(*             is modelled, the title part is the same code)               *)
(*   "lac_tok" tokenization_lac.LacTCG          (Token objects, tuples)    *)
(*   "soynlp"  tokenization_ko.SoynlpTCG        (Token objects, tuples)    *)
(* A document is [present, tokens]: present is the truth value of          *)
(* doc.content (lac_str) or doc.tokenizable (lac_tok, soynlp); a token is  *)
(* [text, pos, offset].                                                    *)
(***************************************************************************)
\* LacTCG.pos
lac_pos == {"LOC", "ORG", "PER", "TIME", "a", "an", "m", "n", "nr", "ns", "nt",
            "nz", "q", "s", "t", "v", "vn"}

\* SoynlpTCG.pos
soynlp_pos == {"L"}

\* characters of the modelled alphabet in the class [a-zA-Z0-9ㄱ-힣]
AlnumChars == {"a", "b"}

\* re.search(r'[a-zA-Z0-9ㄱ-힣]', text) != None
HasAlnum(text) == \E k \in 1..Len(text) : text[k] \in AlnumChars

\* the condition of the unigram comprehension of both LacTCG classes
lac_keep_no_strip(tok) == tok.pos \in lac_pos

lac_keep(tok) == tok.pos \in lac_pos /\ Strip(tok.text) # <<>>

\* the condition of the unigram comprehension of SoynlpTCG
soynlp_keep(tok) ==
    tok.pos \in soynlp_pos /\ Strip(tok.text) # <<>> /\ HasAlnum(tok.text)

\* [x for x in tokens if keep(x)]
RECURSIVE Comprehension(_, _)
Comprehension(tokens, gen) ==
    IF tokens = <<>> THEN <<>>
    ELSE LET keep == IF gen = "soynlp" THEN soynlp_keep(Head(tokens))
                     ELSE lac_keep(Head(tokens))
         IN  (IF keep THEN <<Head(tokens)>> ELSE <<>>)
             \o Comprehension(Tail(tokens), gen)

\* the zip with the slices taken one position late: unigram[i + 1:]
ZipSlicesFromOne(unigram, n) ==
    LET slices == [i \in 1..n |-> From(unigram, i)]
        zlen == IF n = 0 THEN 0 ELSE Min({ Len(slices[i]) : i \in 1..n })
    IN  [k \in 1..zlen |-> [i \in 1..n |-> slices[i][k]]]

\* zip(*[unigram[i:] for i in range(n)]): as many tuples as the shortest
\* slice is long, the k-th tuple holding the k-th element of every slice
ZipSlices(unigram, n) ==
    LET slices == [i \in 1..n |-> From(unigram, i - 1)]
        zlen == IF n = 0 THEN 0 ELSE Min({ Len(slices[i]) : i \in 1..n })
    IN  [k \in 1..zlen |-> [i \in 1..n |-> slices[i][k]]]

\* the token-based _ngram of tokenization_lac.LacTCG / SoynlpTCG
ngram_tuples(unigram, n) == ZipSlices(unigram, n)

\* candidate_generation_lac.LacTCG._make_ngram: ''.join of every tuple
make_ngram(text, n) ==
    LET z == ZipSlices(text, n) IN [k \in 1..Len(z) |-> Join(z[k])]

\* the largest order candidate_generation_lac.LacTCG.get_candidate builds
\* (`if self.ngram >= 4` is its last branch)
MaxBuiltOrder == 4

\* content_candidate of candidate_generation_lac.LacTCG.get_candidate
lac_str_candidate(unigram, ngram) ==
    [n \in 1..ngram |->
        IF n = 1 THEN unigram
        ELSE IF n <= MaxBuiltOrder THEN make_ngram(unigram, n)
        ELSE <<>>]

\* candidates of tokenization_lac.LacTCG / SoynlpTCG for a tokenizable doc:
\* [unigram] + [_ngram(unigram, i+1) for i in range(1, N)]
tok_candidate(unigram, N) ==
    [n \in 1..(IF N > 1 THEN N ELSE 1) |->
        IF n = 1 THEN unigram ELSE ngram_tuples(unigram, n)]

\* get_candidate of the three generators
get_candidate(gen, doc, N) ==
    IF gen = "lac_str"
    THEN IF doc.present
         THEN [raised |-> FALSE,
               candidates |-> lac_str_candidate(
                   [k \in 1..Len(Comprehension(doc.tokens, gen)) |->
                        Comprehension(doc.tokens, gen)[k].text], N)]
         ELSE \* content_unigram is unbound when doc.content is empty
              [raised |-> TRUE, candidates |-> <<>>]
    ELSE IF doc.present
         THEN [raised |-> FALSE,
               candidates |-> tok_candidate(Comprehension(doc.tokens, gen), N)]
         ELSE [raised |-> FALSE, candidates |-> << <<>> >>]

(***************************************************************************)
(* Specification SpecCand: get_candidate on bounded documents.             *)
(***************************************************************************)
MaxCandToks == 5

MaxN == 5

CandKinds == { [text |-> <<"a">>, pos |-> "n"], [text |-> <<"b">>, pos |-> "n"],
               [text |-> <<" ">>, pos |-> "n"], [text |-> <<"a">>, pos |-> "L"],
               [text |-> <<"!">>, pos |-> "L"] }

CandDocs ==
    { [present |-> TRUE,
       tokens |-> [k \in 1..Len(ks) |->
                      [text |-> ks[k].text, pos |-> ks[k].pos, offset |-> k - 1]]]
      : ks \in SeqsUpTo(CandKinds, MaxCandToks) }
    \cup { [present |-> FALSE, tokens |-> <<>>] }

Generators == {"lac_str", "lac_tok", "soynlp"}

CandInit ==
    /\ gdoc \in CandDocs
    /\ ggen = "none"
    /\ gN = 1
    /\ gout = [raised |-> FALSE, candidates |-> <<>>]
    /\ FuseIdle
    /\ AlignIdle
    /\ CallIdle
    /\ PreIdle
    /\ ThreadIdle
    /\ RankIdle
    /\ PatIdle
    /\ TitleIdle

GetCandidate ==
    /\ ggen = "none"
    /\ \E gen \in Generators, N \in 1..MaxN :
         /\ ggen' = gen
         /\ gN' = N
         /\ gout' = get_candidate(gen, gdoc, N)
    /\ UNCHANGED <<gdoc, fvars, avars, cvars, pvars, tvars, rvars, dvars, uvars>>

CandNext == GetCandidate

SpecCand == CandInit /\ [][CandNext]_vars

Max2(a, b) == IF a >= b THEN a ELSE b

\* C8: for a unigram list of length L and every requested order n in
\* 1..max_n, the candidate group of order n has max(0, L - n + 1) entries.
C8_GroupSizes ==
    (ggen # "none" /\ gdoc.present) =>
        /\ ~gout.raised
        /\ Len(gout.candidates) = gN
        /\ \A n \in 1..gN :
               Len(gout.candidates[n]) = Max2(0, Len(gout.candidates[1]) - n + 1)

\* C23: for every order n >= 2, the i-th candidate of the group of order n
\* is built from exactly the n consecutive unigrams i .. i+n-1: their texts
\* concatenated in _make_ngram, the tuple of the tokens in order in _ngram.
C23_NgramIsConsecutiveUnigrams ==
    (ggen # "none" /\ gdoc.present /\ ~gout.raised) =>
        \A n \in 2..Len(gout.candidates) :
            \A i \in 1..Len(gout.candidates[n]) :
                LET unigram == gout.candidates[1]
                IN  /\ i + n - 1 <= Len(unigram)
                    /\ gout.candidates[n][i] =
                           IF ggen = "lac_str"
                           THEN Join(SubSeq(unigram, i, i + n - 1))
                           ELSE SubSeq(unigram, i, i + n - 1)

\* a string trigram group with two entries over unigrams that differ
C23_Witness ==
    /\ ggen = "lac_str"
    /\ ~gout.raised
    /\ Len(gout.candidates) >= 3
    /\ Len(gout.candidates[3]) >= 2
    /\ gout.candidates[3][1] # gout.candidates[3][2]

\* The claimed filter, stated on its own.
ClaimAllowedTags(gen) ==
    IF gen = "soynlp" THEN {"L"}
    ELSE {"LOC", "ORG", "PER", "TIME", "a", "an", "m", "n", "nr", "ns", "nt",
          "nz", "q", "s", "t", "v", "vn"}

ClaimTrimmedNonEmpty(text) == \E k \in 1..Len(text) : text[k] # " "

ClaimKeeps(gen, tok) == tok.pos \in ClaimAllowedTags(gen) /\ ClaimTrimmedNonEmpty(tok.text)

ClaimHasAlnum(text) == \E k \in 1..Len(text) : text[k] \in {"a", "b"}

\* the order-1 list as a list of tokens (lac_str keeps the texts only)
UnigramOf(gen, toks) ==
    IF gen = "lac_str" THEN [k \in 1..Len(toks) |-> toks[k].text] ELSE toks

\* C9 as claimed: the order-1 list is exactly the tokens whose tag is allowed
\* and whose trimmed text is non-empty, in order.
C9_UnigramIsTagAndTextFilter ==
    (ggen # "none" /\ gdoc.present) =>
        /\ ~gout.raised
        /\ gout.candidates[1] =
             UnigramOf(ggen, SelectSeq(gdoc.tokens, LAMBDA t : ClaimKeeps(ggen, t)))

\* C9 as amended: the same, except that SoynlpTCG also requires the text to
\* hold a character of [a-zA-Z0-9ㄱ-힣].
C9_UnigramIsFilter ==
    (ggen # "none" /\ gdoc.present) =>
        /\ ~gout.raised
        /\ gout.candidates[1] =
             UnigramOf(ggen, SelectSeq(gdoc.tokens,
                 LAMBDA t : ClaimKeeps(ggen, t)
                            /\ (ggen = "soynlp" => ClaimHasAlnum(t.text))))

\* C9 witness: a stream from which a token is dropped for its tag, one for
\* its blank text, and two are kept in order.
C9_Witness ==
    /\ ggen = "lac_tok"
    /\ Len(gdoc.tokens) = 4
    /\ \E k \in 1..4 : gdoc.tokens[k].pos = "L"
    /\ \E k \in 1..4 : gdoc.tokens[k].text = <<" ">>
    /\ Len(gout.candidates[1]) = 2
    /\ gout.candidates[1][1].text # gout.candidates[1][2].text

(***************************************************************************)
(* The pipeline: Tokenization.__call__ followed by the Token Candidate     *)
(* Generator of tokenization_lac / tokenization_ko on the returned Doc.    *)
(***************************************************************************)
\* The name of the Python attribute a field of the model's Doc stands for:
\* __call__ stores the flag with update_feature({"_tokenizable": ...}).
AttributeName(field) == IF field = "tokenizable" THEN "_tokenizable" ELSE field

\* The attributes of a Doc: the dataclass fields, _features (__post_init__)
\* and one attribute per feature key (Doc._update: setattr(self, k, v)).
doc_attributes(doc) == { AttributeName(f) : f \in DOMAIN doc } \cup {"_features"}

\* reading doc.<name> raises AttributeError when the Doc has no such attribute
getattr_raises(doc, name) == name \notin doc_attributes(doc)

\* LacTCG.get_candidate / SoynlpTCG.get_candidate on a Doc object: the code
\* reads doc.tokenizable, then doc.tokens in the tokenizable branch.
get_candidate_of_doc(gen, doc, N) ==
    IF getattr_raises(doc, "tokenizable")
    THEN [raised |-> TRUE, candidates |-> <<>>]
    ELSE IF doc.tokenizable
         THEN IF getattr_raises(doc, "tokens")
              THEN [raised |-> TRUE, candidates |-> <<>>]
              ELSE get_candidate(gen, [present |-> TRUE, tokens |-> doc.tokens], N)
         ELSE get_candidate(gen, [present |-> FALSE, tokens |-> <<>>], N)

(***************************************************************************)
(* Specification SpecPipe: one text is tokenized by __call__, the Doc it   *)
(* returns is handed to a Token Candidate Generator.                       *)
(***************************************************************************)
DocGenerators == {"lac_tok", "soynlp"}

PipeInit == CallInit

\* generator(doc, ngram) on the Doc returned by the tokenizer
GetCandidateOfDoc ==
    /\ cres.state = "returned"
    /\ ggen = "none"
    /\ \E gen \in DocGenerators, N \in 1..MaxN :
         /\ ggen' = gen
         /\ gN' = N
         /\ gout' = get_candidate_of_doc(gen, cres.doc, N)
    /\ UNCHANGED <<gdoc, fvars, avars, cvars, pvars, tvars, rvars, dvars, uvars>>

PipeNext == Call \/ CallEngineRaises \/ GetCandidateOfDoc

SpecPipe == PipeInit /\ [][PipeNext]_vars

\* C11: for a non-tokenizable Doc returned by __call__ (flag false, no
\* tokens), candidate generation with max order N returns without raising
\* and the Doc carries one empty candidate group for every order 1..N.
C11_NonTokenizableGetsEmptyGroups ==
    (ggen # "none" /\ cres.state = "returned" /\ ~cres.doc.tokenizable) =>
        /\ ~gout.raised
        /\ Len(gout.candidates) = gN
        /\ \A n \in 1..Len(gout.candidates) : gout.candidates[n] = <<>>

(***************************************************************************)
(* The preprocessors: LACTokenization._preprocess (ZhPreprocessing, which  *)
(* substitutes ''), SoynlpTokenization._preprocess and                     *)
(* MecabTokenization._preprocess (KoPreprocessing, which substitutes ' '), *)
(* as the sequence of their substitution statements.  "emo" names an emoji *)
(* character, "1" a digit.                                                 *)
(***************************************************************************)
EmojiChars == {"emo"}

\* the replacement string of the rm_* methods of the variant's preprocessor
Repl(variant) == IF variant = "lac" THEN <<>> ELSE <<" ">>

\* the longest run of characters of class at the head of text
RECURSIVE ClassPrefix(_, _)
ClassPrefix(text, class) ==
    IF text # <<>> /\ Head(text) \in class
    THEN <<Head(text)>> \o ClassPrefix(Tail(text), class)
    ELSE <<>>

\* re.compile(sigil + '([class]+)').sub(repl, text)
RECURSIVE SigilSub(_, _, _, _)
SigilSub(sigil, class, repl, text) ==
    IF text = <<>> THEN <<>>
    ELSE IF Head(text) = sigil /\ ClassPrefix(Tail(text), class) # <<>>
         THEN repl \o SigilSub(sigil, class, repl,
                               From(text, 1 + Len(ClassPrefix(Tail(text), class))))
         ELSE <<Head(text)>> \o SigilSub(sigil, class, repl, Tail(text))

\* url.sub: every match starts with "http", which no modelled text holds
rm_url(variant, text) == text

\* email.sub: every match holds '@' followed by a letter of [a-zA-Z]; the
\* texts of SpecPre hold no letter
rm_email(variant, text) == text

\* emoji.sub: every emoji is replaced
RECURSIVE rm_emoji(_, _)
rm_emoji(variant, text) ==
    IF text = <<>> THEN <<>>
    ELSE IF Head(text) \in EmojiChars
         THEN Repl(variant) \o rm_emoji(variant, Tail(text))
         ELSE <<Head(text)>> \o rm_emoji(variant, Tail(text))

\* hashtag.sub with the pattern #([emojis \w -]+)
rm_hashtag(variant, text) ==
    SigilSub("#", WordChars \cup EmojiChars, Repl(variant), text)

\* mention.sub with the pattern @([\w-]+)
rm_mention(variant, text) == SigilSub("@", WordChars, Repl(variant), text)

\* image.sub with the pattern (\[image#0\d\])
rm_image(variant, text) ==
    ReSub(<<"[", "i", "m", "a", "g", "e", "#", "0", "1", "]">>, Repl(variant), text)

\* _preprocess with the mention statement moved before the hashtag statement
preprocess_stages_mention_first(variant) ==
    <<"url", "email", "emoji", "mention", "hashtag", "image">>

\* the substitution statements of _preprocess in the order of the code

preprocess_stages(variant) ==
    <<"url", "email", "emoji", "hashtag", "mention", "image">>

\* one statement `text = self.preprocessor.<stage>(text)`
ApplyStage(variant, stage, text) ==
    CASE stage = "url" -> rm_url(variant, text)
      [] stage = "email" -> rm_email(variant, text)
      [] stage = "emoji" -> rm_emoji(variant, text)
      [] stage = "hashtag" -> IF variant = "mecab" THEN replace_hashtag(text)
                              ELSE rm_hashtag(variant, text)
      [] stage = "mention" -> rm_mention(variant, text)
      [] stage = "image" -> rm_image(variant, text)

\* the statements run one after the other, each on the text the previous
\* one assigned; trace records the stage and the text it assigned
RECURSIVE RunStages(_, _, _, _)
RunStages(variant, stages, text, trace) ==
    IF stages = <<>> THEN [text |-> text, trace |-> trace]
    ELSE LET out == ApplyStage(variant, Head(stages), text)
         IN  RunStages(variant, Tail(stages), out,
                       Append(trace, [stage |-> Head(stages), out |-> out]))

\* _preprocess(text) of the variant: the stages, then text.strip()
run_preprocess(variant, text) ==
    LET r == RunStages(variant, preprocess_stages(variant), text, <<>>)
    IN  [done |-> TRUE, text |-> Strip(r.text), trace |-> r.trace]

(***************************************************************************)
(* Specification SpecPre: _preprocess of one tokenizer on a bounded text.  *)
(***************************************************************************)
MaxPreLen == 4

PreChars == {"1", " ", "#", "@", "emo"}

PreVariants == {"lac", "ko", "mecab"}

PreInit ==
    /\ pvariant \in PreVariants
    /\ ptext \in SeqsUpTo(PreChars, MaxPreLen)
    /\ pres = [done |-> FALSE, text |-> <<>>, trace |-> <<>>]
    /\ FuseIdle
    /\ AlignIdle
    /\ CallIdle
    /\ CandIdle
    /\ ThreadIdle
    /\ RankIdle
    /\ PatIdle
    /\ TitleIdle

Preprocess ==
    /\ ~pres.done
    /\ pres' = run_preprocess(pvariant, ptext)
    /\ UNCHANGED <<pvariant, ptext, fvars, avars, cvars, gvars, tvars, rvars, dvars, uvars>>

PreNext == Preprocess

SpecPre == PreInit /\ [][PreNext]_vars

\* the stages of the trace, in the order they ran
TraceStages == [k \in 1..Len(pres.trace) |-> pres.trace[k].stage]

\* the text the k-th stage was applied to
TraceInput(k) == IF k = 1 THEN ptext ELSE pres.trace[k-1].out

\* every stage worked on the output of the stage before it
TraceIsChained ==
    \A k \in 1..Len(pres.trace) :
        pres.trace[k].out = ApplyStage(pvariant, pres.trace[k].stage, TraceInput(k))

KpeWordChars == {"a", "b", "1"}

\* the keywords of the custom dictionary of the modelled instance
kpe_keywords == { <<"a", "b">> }

\* self.kpe.extract_keywords(text, span_info=True) from 0-based position k
RECURSIVE KpeScan(_, _)
KpeScan(text, k) ==
    IF k >= Len(text) THEN <<>>
    ELSE LET w == ClassPrefix(From(text, k), KpeWordChars)
         IN  IF w = <<>> THEN KpeScan(text, k + 1)
             ELSE IF w \in kpe_keywords
                  THEN <<[text |-> w, start |-> k, end |-> k + Len(w)]>>
                       \o KpeScan(text, k + Len(w))
                  ELSE KpeScan(text, k + Len(w))

kpe_extract(text) == KpeScan(text, 0)

\* sum(map(lambda tok: tok.end if tok.end == kp_end else 0, toks[j:]))
RECURSIVE SumEnds(_, _, _)
SumEnds(toks, j, kp_end) ==
    IF j >= Len(toks) THEN 0
    ELSE (IF toks[j + 1].end = kp_end THEN toks[j + 1].end ELSE 0)
         + SumEnds(toks, j + 1, kp_end)

\* dict.fromkeys(token.features.keys()): every feature is None
None == "None"

\* the loop of _retokenize over doc.Tokens from its j-th token
RECURSIVE RetokenizeLoop(_, _, _, _, _)
RetokenizeLoop(toks, keyphrases, j, kpe_idx, Tokens) ==
    IF j > Len(toks) THEN Tokens
    ELSE LET token == toks[j]
             kp == keyphrases[kpe_idx + 1]
             end == SumEnds(toks, token.offset, kp.end)
         IN  IF token.start = kp.start /\ end # 0
             THEN RetokenizeLoop(toks, keyphrases, j + 1,
                      IF Len(keyphrases) > kpe_idx + 1 THEN kpe_idx + 1 ELSE kpe_idx,
                      Append(Tokens,
                             [DocId |-> token.DocId, offset |-> token.offset,
                              start |-> token.start, end |-> end, text |-> kp.text,
                              pos |-> "KEYPHRASE", space |-> None]))
             ELSE IF Tokens = <<>> \/ Tokens[Len(Tokens)].end < token.end
                  THEN RetokenizeLoop(toks, keyphrases, j + 1, kpe_idx,
                                      Append(Tokens, token))
                  ELSE RetokenizeLoop(toks, keyphrases, j + 1, kpe_idx, Tokens)

\* _retokenize(doc); hashtag is the value of self._hashtag when it is read
retokenize(doc, hashtag) ==
    LET keyphrases == kpe_extract(doc.text)
    IN  [Id |-> doc.Id, text |-> doc.text,
         Tokens |-> IF keyphrases # <<>>
                    THEN RetokenizeLoop(doc.Tokens, keyphrases, 1, 0, <<>>)
                    ELSE doc.Tokens,
         tokenizable |-> doc.tokenizable,
         hashtag |-> hashtag]

\* the statement of _preprocess that assigns self._hashtag
captured_hashtags(text) ==
    [k \in 1..Len(hashtag_findall(text)) |->
        StripChars(hashtag_findall(text)[k], re_meta)]

\* self._hashtag after super().__call__ on text, hashtag being its value
\* before: _preprocess runs only under `if text:`
hashtag_after_call(text, hashtag) ==
    IF text # <<>> THEN captured_hashtags(normalize(text)) ELSE hashtag

\* the rest of __call__ once _preprocess has run
mecab_finish(Id, text, surfaces, hashtag) ==
    LET r == Tokenization_call(Id, text, surfaces)
    IN  IF r.state = "raised" THEN [state |-> "raised", doc |-> NoDoc]
        ELSE [state |-> "returned", doc |-> retokenize(r.doc, hashtag)]

\* MecabTokenization.__call__ run without interruption on an instance whose
\* self._hashtag is hashtag at entry ([] on a new instance)
mecab_call(Id, text, surfaces, hashtag) ==
    mecab_finish(Id, text, surfaces, hashtag_after_call(text, hashtag))

(***************************************************************************)
(* Specification SpecThreads: two threads tokenize one document each       *)
(* through the same MecabTokenization instance.  A thread switch can fall  *)
(* between the assignment of self._hashtag in _preprocess and its read at  *)
(* the end of _retokenize.                                                 *)
(***************************************************************************)
MaxThreadLen == 2

ThreadChars == {"a", "b", " ", "#"}

ThreadTexts == SeqsUpTo(ThreadChars, MaxThreadLen)

ThreadId(i) == IF i = 1 THEN "id1" ELSE "id2"

ThreadInit ==
    /\ shash = <<>>
    /\ tpc = [i \in Threads |-> "start"]
    /\ ttext \in [Threads -> ThreadTexts]
    /\ tsurf = [i \in Threads |-> <<>>]
    /\ tdoc = [i \in Threads |-> NoCall]
    /\ FuseIdle
    /\ AlignIdle
    /\ CallIdle
    /\ CandIdle
    /\ PreIdle
    /\ RankIdle
    /\ PatIdle
    /\ TitleIdle

\* thread i runs __call__ up to the return of _preprocess
ThreadPreprocess(i) ==
    /\ tpc[i] = "start"
    /\ shash' = hashtag_after_call(ttext[i], shash)
    /\ tpc' = [tpc EXCEPT ![i] = "preprocessed"]
    /\ UNCHANGED <<ttext, tsurf, tdoc, fvars, avars, cvars, gvars, pvars, rvars, dvars, uvars>>

\* thread i runs the rest of __call__: engine, alignment, Doc, _retokenize
ThreadFinish(i) ==
    /\ tpc[i] = "preprocessed"
    /\ \E surfaces \in mecab_parse(preprocess(normalize(ttext[i]))) :
         /\ tsurf' = [tsurf EXCEPT ![i] = surfaces]
         /\ tdoc' = [tdoc EXCEPT ![i] = mecab_finish(ThreadId(i), ttext[i], surfaces, shash)]
    /\ tpc' = [tpc EXCEPT ![i] = "done"]
    /\ UNCHANGED <<shash, ttext, fvars, avars, cvars, gvars, pvars, rvars, dvars, uvars>>

ThreadNext == \E i \in Threads : ThreadPreprocess(i) \/ ThreadFinish(i)

SpecThreads == ThreadInit /\ [][ThreadNext]_vars

\* C18: when two documents are tokenized concurrently through the same
\* tokenizer instance, each returned Doc, with its doc-level features such
\* as 'hashtag', is the Doc a new instance returns for that document alone.
C18_DocsIndependentOfInterleaving ==
    \A i \in Threads :
        tpc[i] = "done" =>
            tdoc[i] = mecab_call(ThreadId(i), ttext[i], tsurf[i], <<>>)

(***************************************************************************)
(* Specification SpecMecab: two calls of MecabTokenization.__call__, one   *)
(* after the other, on the same instance (use_rtk at its default, True).   *)
(* Call i tokenizes ttext[i]; shash is self._hashtag between the calls.    *)
(***************************************************************************)
MaxMecabLen == 3

\* "ga" is a Hangul syllable
MecabChars == {"a", "b", " ", "#", "ga"}

\* longer texts with two occurrences of the dictionary keyword
MecabLongTexts ==
    { <<"a", "b", "ga", "a", "b">>, <<"a", "b", " ", "a", "b">>,
      <<"ga", "a", "b", " ", "a", "b">> }

MecabFirstTexts == SeqsUpTo(MecabChars, MaxMecabLen) \cup MecabLongTexts

MecabSecondTexts == { <<>>, <<" ">>, <<"a">>, <<"#", "a">>, <<"#", "b">> }

MecabInit ==
    /\ shash = <<>>
    /\ tpc = [i \in Threads |-> "start"]
    /\ ttext \in { t \in [Threads -> MecabFirstTexts \cup MecabSecondTexts] :
                     t[1] \in MecabFirstTexts /\ t[2] \in MecabSecondTexts }
    /\ tsurf = [i \in Threads |-> <<>>]
    /\ tdoc = [i \in Threads |-> NoCall]
    /\ FuseIdle
    /\ AlignIdle
    /\ CallIdle
    /\ CandIdle
    /\ PreIdle
    /\ RankIdle
    /\ PatIdle
    /\ TitleIdle

\* the i-th call of __call__, run to its return
MecabCall(i) ==
    /\ tpc[i] = "start"
    /\ \A j \in Threads : j < i => tpc[j] = "done"
    /\ shash' = hashtag_after_call(ttext[i], shash)
    /\ \E surfaces \in mecab_parse(preprocess(normalize(ttext[i]))) :
         /\ tsurf' = [tsurf EXCEPT ![i] = surfaces]
         /\ tdoc' = [tdoc EXCEPT ![i] = mecab_call(ThreadId(i), ttext[i], surfaces, shash)]
    /\ tpc' = [tpc EXCEPT ![i] = "done"]
    /\ UNCHANGED <<ttext, fvars, avars, cvars, gvars, pvars, rvars, dvars, uvars>>

MecabNext == \E i \in Threads : MecabCall(i)

SpecMecab == MecabInit /\ [][MecabNext]_vars

\* C24: in every returned Doc, retokenized ones included, the offset of the
\* token at index i of Tokens is i.
C24_OffsetIsIndex ==
    \A i \in Threads :
        (tpc[i] = "done" /\ tdoc[i].state = "returned") =>
            \A k \in 1..Len(tdoc[i].doc.Tokens) :
                tdoc[i].doc.Tokens[k].offset = k - 1

\* the hashtags written in a text: the word after each '#'
RECURSIVE HashtagsIn(_)
HashtagsIn(text) ==
    IF text = <<>> THEN <<>>
    ELSE IF Head(text) = "#" /\ WordPrefix(Tail(text)) # <<>>
         THEN <<WordPrefix(Tail(text))>>
              \o HashtagsIn(From(text, 1 + Len(WordPrefix(Tail(text)))))
         ELSE HashtagsIn(Tail(text))

\* C25: after any sequence of calls on one instance, the 'hashtag' feature
\* of each returned Doc lists exactly the hashtags of that Doc's own input
\* text; it is empty for an empty or hashtag-free text.
C25_HashtagsAreOwn ==
    \A i \in Threads :
        (tpc[i] = "done" /\ tdoc[i].state = "returned") =>
            tdoc[i].doc.hashtag = HashtagsIn(normalize(ttext[i]))

\* the tokens of call i before _retokenize
TokensBefore(i) == Tokenization_call(ThreadId(i), ttext[i], tsurf[i]).doc.Tokens

\* a keyphrase span that starts at a token start and ends at a token end
LinesUp(kp, toks) ==
    /\ \E k \in 1..Len(toks) : toks[k].start = kp.start
    /\ \E k \in 1..Len(toks) : toks[k].end = kp.end

\* C27: every extracted keyphrase whose span starts at a token start and
\* ends at a token end is one 'KEYPHRASE' token of the result, whatever the
\* other keyphrases are; tokens outside those spans are kept; the result is
\* ordered by start and non-overlapping.
C27_AlignedKeyphrasesAreMerged ==
    \A i \in Threads :
        (tpc[i] = "done" /\ tdoc[i].state = "returned") =>
            LET out == tdoc[i].doc.Tokens
                toks == TokensBefore(i)
                kps == kpe_extract(tdoc[i].doc.text)
                merged == { q \in 1..Len(kps) : LinesUp(kps[q], toks) }
            IN  /\ \A q \in merged :
                       \E k \in 1..Len(out) :
                           /\ out[k].pos = "KEYPHRASE"
                           /\ out[k].start = kps[q].start
                           /\ out[k].end = kps[q].end
                           /\ out[k].text = kps[q].text
                /\ \A j \in 1..Len(toks) :
                       (\A q \in merged : toks[j].end <= kps[q].start
                                          \/ toks[j].start >= kps[q].end) =>
                           \E k \in 1..Len(out) : out[k] = toks[j]
                /\ \A k \in 1..(Len(out) - 1) : out[k].end <= out[k + 1].start

(***************************************************************************)
(* ranking_lac.LacTokenRanking.  A corpus is a list of documents, a        *)
(* document is its list of candidate groups, a group is a list of terms.   *)
(* Weights and scores are fixed-point numbers in thousandths.              *)
(***************************************************************************)
\* code point order of the characters of the modelled terms
CharRank(c) == IF c = "a" THEN 1 ELSE IF c = "b" THEN 2 ELSE 3

\* s < t for Python strs
RECURSIVE LexLess(_, _)
LexLess(s, t) ==
    IF t = <<>> THEN FALSE
    ELSE IF s = <<>> THEN TRUE
    ELSE IF Head(s) = Head(t) THEN LexLess(Tail(s), Tail(t))
    ELSE CharRank(Head(s)) < CharRank(Head(t))

\* sorted(S) for a set of strs
RECURSIVE Sorted(_)
Sorted(S) ==
    IF S = {} THEN <<>>
    ELSE LET m == CHOOSE x \in S : \A y \in S \ {x} : LexLess(x, y)
         IN  <<m>> \o Sorted(S \ {m})

\* Counter(chain(*x)) of one document x: term -> occurrences over all groups
Counter(x) ==
    LET terms == Join(x)
    IN  [t \in { terms[k] : k \in 1..Len(terms) } |->
            Cardinality({ k \in 1..Len(terms) : terms[k] = t })]

Max(S) == CHOOSE x \in S : \A y \in S : x >= y

\* _build_document_term_matrix(candidates)
build_document_term_matrix(candidates) ==
    LET bunch_of_bow == [d \in 1..Len(candidates) |-> Counter(candidates[d])]
        idx2token == Sorted(UNION { DOMAIN bunch_of_bow[d] : d \in 1..Len(candidates) })
        \* the row index of every (token, count) item
        rows == { d - 1 : d \in { e \in 1..Len(candidates) : DOMAIN bunch_of_bow[e] # {} } }
    IN  IF rows = {}
        THEN \* cols, data = list(zip(*...)) unpacks an empty list: ValueError
             [raised |-> TRUE, dtm |-> <<>>, idx2token |-> <<>>]
        ELSE \* csr_matrix((data, (rows, cols))) infers its shape from the
             \* largest row and column index
             [raised |-> FALSE,
              dtm |-> [r \in 1..(Max(rows) + 1) |->
                         [c \in 1..Len(idx2token) |->
                            IF idx2token[c] \in DOMAIN bunch_of_bow[r]
                            THEN bunch_of_bow[r][idx2token[c]] ELSE 0]],
              idx2token |-> idx2token]

\* 1000 * ln(num / den), rounded, for the ratios (1 + n) / (1 + df) of
\* corpora of up to five documents
LnMilli(num, den) ==
    CASE num = den -> 0
      [] <<num, den>> = <<3, 2>> -> 405
      [] <<num, den>> = <<4, 2>> -> 693
      [] <<num, den>> = <<4, 3>> -> 288
      [] <<num, den>> = <<5, 2>> -> 916
      [] <<num, den>> = <<5, 3>> -> 511
      [] <<num, den>> = <<5, 4>> -> 223
      [] <<num, den>> = <<6, 2>> -> 1099
      [] <<num, den>> = <<6, 3>> -> 693
      [] <<num, den>> = <<6, 4>> -> 405
      [] <<num, den>> = <<6, 5>> -> 182

\* floor of the square root
RECURSIVE SqrtBetween(_, _, _)
SqrtBetween(lo, hi, n) ==
    IF lo >= hi THEN lo
    ELSE LET mid == (lo + hi + 1) \div 2
         IN  IF mid * mid <= n THEN SqrtBetween(mid, hi, n)
             ELSE SqrtBetween(lo, mid - 1, n)

ISqrt(n) == SqrtBetween(0, IF n < 40000 THEN n ELSE 40000, n)

RECURSIVE SumSeq(_)
SumSeq(s) == IF s = <<>> THEN 0 ELSE Head(s) + SumSeq(Tail(s))

\* TfidfTransformer's document frequency of column c
DocFreq(dtm, c) == Cardinality({ r \in 1..Len(dtm) : dtm[r][c] > 0 })

\* idf_ of the fitted transformer (smooth_idf=True): ln((1+n)/(1+df)) + 1
Idf(dtm, c) == 1000 + LnMilli(1 + Len(dtm), 1 + DocFreq(dtm, c))

\* the rows weighted by idf: tf * idf
WeightedRows(dtm) ==
    [r \in 1..Len(dtm) |-> [c \in 1..Len(dtm[r]) |-> dtm[r][c] * Idf(dtm, c)]]

\* TfidfTransformer().fit_transform(dtm): the defaults are use_idf=True,
\* smooth_idf=True, norm='l2', so every weighted row is divided by its
\* Euclidean norm (a row of zeros stays as it is)
fit_transform(dtm) ==
    LET w == WeightedRows(dtm)
        norm == [r \in 1..Len(w) |->
                    ISqrt(SumSeq([c \in 1..Len(w[r]) |-> w[r][c] * w[r][c]]))]
    IN  [r \in 1..Len(w) |-> [c \in 1..Len(w[r]) |->
            IF norm[r] = 0 THEN 0 ELSE (w[r][c] * 1000) \div norm[r]]]

\* dtm.sum(axis=0): the column sums
ColumnSums(m) ==
    [c \in 1..Len(m[1]) |-> SumSeq([r \in 1..Len(m) |-> m[r][c]])]

\* `not self.top_k`
Falsy(top_k) == ~top_k.supplied \/ top_k.value = 0

\* int(len(scores) * 0.2)
DefaultTopK(V) == (V * 2) \div 10

\* np.argsort(-scores)[:k]: the default sort kind is not stable, so the
\* columns come by non-increasing score and tied columns in any order.
\* The set of the prefixes of length k it can return (0-based -> 1-based).
RECURSIVE ArgsortPrefixes(_, _, _)
ArgsortPrefixes(scores, left, k) ==
    IF k = 0 \/ left = {} THEN { <<>> }
    ELSE LET best == { i \in left : \A j \in left : scores[i] >= scores[j] }
         IN  UNION { { <<i>> \o rest : rest \in ArgsortPrefixes(scores, left \ {i}, k - 1) }
                     : i \in best }

RaisedScore == [state |-> "raised", keyphrase |-> <<>>]

\* get_score(candidates) on an instance whose self.top_k is top_k: the set
\* of its outcomes [res, top_k], top_k being self.top_k after the call
get_score(top_k, candidates) ==
    LET b == build_document_term_matrix(candidates)
    IN  IF b.raised THEN { [res |-> RaisedScore, top_k |-> top_k] }
        ELSE IF Len(b.idx2token) = 1
        THEN \* np.squeeze leaves a 0-dimensional array: len(scores) raises
             \* TypeError, scores[i] raises IndexError
             { [res |-> RaisedScore, top_k |-> top_k] }
        ELSE LET scores == ColumnSums(fit_transform(b.dtm))
                 new_top_k == IF Falsy(top_k)
                              THEN [supplied |-> TRUE, value |-> DefaultTopK(Len(scores))]
                              ELSE top_k
             IN  { [res |-> [state |-> "returned",
                             keyphrase |-> [k \in 1..Len(args) |->
                                 [term |-> b.idx2token[args[k]], score |-> scores[args[k]]]]],
                    top_k |-> new_top_k]
                   : args \in ArgsortPrefixes(scores, 1..Len(scores), new_top_k.value) }

(***************************************************************************)
(* Specification SpecRank: a new LacTokenRanking instance, constructed     *)
(* with or without top_k, ranks one bounded corpus.                        *)
(* Specification SpecRankCalls: the instance goes on ranking corpora.      *)
(***************************************************************************)
MaxCorpus == 2

MaxTopK == 2

\* the unigram lists of the modelled documents
RankUnigrams ==
    { <<>>, << <<"a">> >>, << <<"a">>, <<"b">> >>, << <<"b">>, <<"a">> >>,
      << <<"a">>, <<"a">> >>, << <<"a">>, <<"a">>, <<"b">> >>,
      << <<"b">>, <<"b">>, <<"a">> >> }

\* the candidates of a document: the unigram list and its bigrams, as
\* candidate_generation_lac.LacTCG(ngram=2) builds them, and the [[]] of a
\* document without tokens
RankDocs == { lac_str_candidate(u, 2) : u \in RankUnigrams } \cup { << <<>> >> }

Corpora == SeqsUpTo(RankDocs, MaxCorpus)

TopKSettings == { NoTopK } \cup { [supplied |-> TRUE, value |-> k] : k \in 1..MaxTopK }

RankInit ==
    /\ rinit \in TopKSettings
    /\ rtopk = rinit
    /\ rcorpus = <<>>
    /\ rres = [state |-> "none", keyphrase |-> <<>>]
    /\ FuseIdle
    /\ AlignIdle
    /\ CallIdle
    /\ CandIdle
    /\ PreIdle
    /\ ThreadIdle
    /\ PatIdle
    /\ TitleIdle

\* ranking(candidates): TokenRanking.__call__ -> get_score
Rank(candidates) ==
    /\ \E out \in get_score(rtopk, candidates) :
            /\ rcorpus' = candidates
            /\ rres' = out.res
            /\ rtopk' = out.top_k
    /\ UNCHANGED <<rinit, fvars, avars, cvars, gvars, pvars, tvars, dvars, uvars>>

\* the first call on the instance
GetScore == rres.state = "none" /\ \E candidates \in Corpora : Rank(candidates)

\* a later call on the same instance
GetScoreAgain == rres.state # "none" /\ \E candidates \in Corpora : Rank(candidates)

RankNext == GetScore

SpecRank == RankInit /\ [][RankNext]_vars

RankCallsNext == GetScore \/ GetScoreAgain

SpecRankCalls == RankInit /\ [][RankCallsNext]_vars

\* the vocabulary of a corpus: the distinct terms of all its groups
Vocabulary(candidates) ==
    UNION { { Join(candidates[d])[k] : k \in 1..Len(Join(candidates[d])) }
            : d \in 1..Len(candidates) }

\* C12: ranking a corpus without documents, or one whose candidate groups
\* are all empty (empty vocabulary), returns the empty list and does not
\* raise.
C12_DegenerateCorpusRanksEmpty ==
    (rres.state # "none" /\ Vocabulary(rcorpus) = {}) =>
        /\ rres.state = "returned"
        /\ rres.keyphrase = <<>>

\* the (term, score) pairs of all the columns of a corpus, in column order
CorpusScores(candidates) ==
    LET b == build_document_term_matrix(candidates)
        scores == ColumnSums(fit_transform(b.dtm))
    IN  [c \in 1..Len(b.idx2token) |-> [term |-> b.idx2token[c], score |-> scores[c]]]

\* C13: the returned list is ordered by non-increasing score, two returned
\* terms of equal score stand in lexicographic order, and a term left out by
\* the truncation that ties with a returned term is lexicographically
\* larger than it.
C13_SortedWithLexicographicTies ==
    rres.state = "returned" =>
        LET K == rres.keyphrase
            all == CorpusScores(rcorpus)
            returned == { K[k].term : k \in 1..Len(K) }
        IN  /\ \A k \in 1..(Len(K) - 1) : K[k].score >= K[k+1].score
            /\ \A k \in 1..Len(K) : \A l \in (k+1)..Len(K) :
                   K[k].score = K[l].score => LexLess(K[k].term, K[l].term)
            /\ \A k \in 1..Len(K) : \A c \in 1..Len(all) :
                   (all[c].term \notin returned /\ all[c].score = K[k].score)
                       => LexLess(K[k].term, all[c].term)

\* the smallest integer >= 20% of V
CeilFifth(V) == (V + 4) \div 5

\* C14: a new instance without top_k returns exactly ceil(0.2 * V) terms,
\* V being the vocabulary size; with top_k supplied it returns
\* min(top_k, V) terms.
C14_TopKDefaultsToCeilOfFifth ==
    rres.state = "returned" =>
        LET V == Cardinality(Vocabulary(rcorpus))
        IN  Len(rres.keyphrase) =
                IF rinit.supplied THEN (IF rinit.value <= V THEN rinit.value ELSE V)
                ELSE CeilFifth(V)

\* C15: whatever calls were made on the instance before, the result of
\* get_score on a corpus is a result a newly constructed instance with the
\* same top_k setting gives on that corpus.
C15_ResultIndependentOfEarlierCalls ==
    rres.state # "none" =>
        rres \in { out.res : out \in get_score(rinit, rcorpus) }

\* tf(d, t): the occurrences of t over all the groups of document d
TermFreq(candidates, d, t) ==
    Cardinality({ k \in 1..Len(Join(candidates[d])) : Join(candidates[d])[k] = t })

\* the claimed score: sum over the documents of tf(d, t) * idf(t), with
\* idf(t) = ln((1 + N) / (1 + df(t))) + 1 and N the corpus size
PlainScore(candidates, t) ==
    LET N == Len(candidates)
        df == Cardinality({ d \in 1..N : TermFreq(candidates, d, t) > 0 })
    IN  SumSeq([d \in 1..N |-> TermFreq(candidates, d, t) * (1000 + LnMilli(1 + N, 1 + df))])

\* the corpus with every term count of document d doubled
DoubledDoc(candidates, d) ==
    [e \in 1..Len(candidates) |->
        IF e = d THEN [g \in 1..Len(candidates[e]) |-> candidates[e][g] \o candidates[e][g]]
        ELSE candidates[e]]

\* the weights document d adds to the column sums
Contribution(candidates, d) == fit_transform(build_document_term_matrix(candidates).dtm)[d]

\* C16: the score of a term is the plain sum over the documents of
\* tf * idf, no row being normalised; so doubling every term count of a
\* document doubles what the document adds to every score.
C16_ScoreIsPlainTfIdfSum ==
    rres.state = "returned" =>
        /\ \A k \in 1..Len(rres.keyphrase) :
               rres.keyphrase[k].score = PlainScore(rcorpus, rres.keyphrase[k].term)
        /\ \A d \in 1..Len(build_document_term_matrix(rcorpus).dtm) :
               Contribution(DoubledDoc(rcorpus, d), d)
                   = [c \in 1..Len(Contribution(rcorpus, d)) |-> 2 * Contribution(rcorpus, d)[c]]

\* C17: the document-term matrix has one row per document of the corpus,
\* documents without candidates included wherever they stand, one column
\* per distinct term in sorted order, and the entry of (d, t) is the number
\* of occurrences of t over all the candidate groups of d.
C17_MatrixHasARowPerDocument ==
    (rres.state # "none" /\ Vocabulary(rcorpus) # {}) =>
        LET b == build_document_term_matrix(rcorpus)
        IN  /\ ~b.raised
            /\ b.idx2token = Sorted(Vocabulary(rcorpus))
            /\ Len(b.dtm) = Len(rcorpus)
            /\ \A d \in 1..Len(b.dtm) : \A c \in 1..Len(b.idx2token) :
                   b.dtm[d][c] = TermFreq(rcorpus, d, b.idx2token[c])


(***************************************************************************)
(* candidate_generation_lac.LACTokenization: the custom dictionary and     *)
(* _postproc_preserve_pattern.  doc is the (token, pos) pair of lists.     *)
(* The modelled words hold no whitespace and no regex metacharacter, so    *)
(* '\s*'.join(word) is the characters of the word with optional            *)
(* whitespace between them.                                                *)
(***************************************************************************)
\* _preserve_pattern_gen: a dict keyed by word, so a repeated word is kept
\* once, at its first position
RECURSIVE preserve_pattern_gen(_)
preserve_pattern_gen(custom_dict) ==
    IF custom_dict = <<>> THEN <<>>
    ELSE LET init == preserve_pattern_gen(SubSeq(custom_dict, 1, Len(custom_dict) - 1))
             word == custom_dict[Len(custom_dict)]
         IN  IF \E k \in 1..Len(init) : init[k] = word THEN init
             ELSE Append(init, word)

\* " ".join(token)
RECURSIVE JoinSpace(_)
JoinSpace(token) ==
    IF token = <<>> THEN <<>>
    ELSE IF Len(token) = 1 THEN Head(token)
    ELSE Head(token) \o <<" ">> \o JoinSpace(Tail(token))

\* list(accumulate([len(x)+1 if (i!=0) and ((i+1)!=len(token)) else len(x)
\*                  for i, x in enumerate(token)]))
char_len(token) ==
    [k \in 1..Len(token) |->
        SumSeq([i \in 1..k |-> IF i # 1 /\ i # Len(token)
                               THEN Len(token[i]) + 1
                               ELSE Len(token[i])])]

bisect_left(a, x) == Cardinality({ k \in 1..Len(a) : a[k] < x })

bisect_right(a, x) == Cardinality({ k \in 1..Len(a) : a[k] <= x })

\* the end of the whitespace run of text that starts at 0-based p
RECURSIVE SkipSpace(_, _)
SkipSpace(text, p) ==
    IF p < Len(text) /\ text[p + 1] \in WhiteSpace THEN SkipSpace(text, p + 1) ELSE p

\* the pattern of word matched at 0-based p: the end of the match, or -1
RECURSIVE MatchWord(_, _, _)
MatchWord(word, text, p) ==
    IF word = <<>> THEN p
    ELSE IF p < Len(text) /\ text[p + 1] = Head(word)
         THEN IF Tail(word) = <<>> THEN p + 1
              ELSE MatchWord(Tail(word), text, SkipSpace(text, p + 1))
         ELSE -1

\* p.finditer(text): the spans of the non-overlapping matches from 0-based p
RECURSIVE finditer(_, _, _)
finditer(word, text, p) ==
    IF p >= Len(text) THEN <<>>
    ELSE LET e == MatchWord(word, text, p)
         IN  IF e >= 0 THEN <<[b |-> p, e |-> e]>> \o finditer(word, text, e)
             ELSE finditer(word, text, p + 1)

\* concat_idx of one word: every span mapped to token indices
concat_idx(word, token) ==
    LET spans == finditer(word, JoinSpace(token), 0)
    IN  [k \in 1..Len(spans) |->
            [b |-> bisect_left(char_len(token), spans[k].b),
             e |-> bisect_right(char_len(token), spans[k].e)]]

\* `for b, e in concat_idx:` new is the (new_token, new_pos) pair so far
RECURSIVE ConcatLoop(_, _, _, _)
ConcatLoop(doc, idx, before, new) ==
    IF idx = <<>> THEN new
    ELSE LET b == Head(idx).b
             e == Head(idx).e
             kept == IF before < b
                     THEN [token |-> new.token \o SubSeq(doc.token, before + 1, b),
                           pos |-> new.pos \o SubSeq(doc.pos, before + 1, b)]
                     ELSE new
         IN  ConcatLoop(doc, Tail(idx), e,
                 [token |-> Append(kept.token, Join(SubSeq(doc.token, b + 1, e))),
                  pos |-> Append(kept.pos, "n")])

\* the body of `for word, p in self.p_pattern.items():` for one word
PreserveWord(doc, word, new) ==
    LET idx == concat_idx(word, doc.token)
    IN  IF idx = <<>> THEN new
        ELSE LET looped == ConcatLoop(doc, idx, 0, new)
                 e == idx[Len(idx)].e
             IN  IF e + 1 < Len(JoinSpace(doc.token))
                 THEN [token |-> looped.token \o SubSeq(doc.token, e + 1, Len(doc.token)),
                       pos |-> looped.pos \o SubSeq(doc.pos, e + 1, Len(doc.pos))]
                 ELSE looped

RECURSIVE PreserveWords(_, _, _)
PreserveWords(doc, p_pattern, new) ==
    IF p_pattern = <<>> THEN new
    ELSE PreserveWords(doc, Tail(p_pattern), PreserveWord(doc, Head(p_pattern), new))

\* _postproc_preserve_pattern(doc) of an instance built with custom_dict
postproc_preserve_pattern(doc, custom_dict) ==
    PreserveWords(doc, preserve_pattern_gen(custom_dict),
                  [token |-> <<>>, pos |-> <<>>])

(***************************************************************************)
(* Specification SpecPattern: _postproc_preserve_pattern on bounded token  *)
(* streams and dictionaries.  The dictionary is not empty: _postprocess    *)
(* calls the function only under `if self.custom_dict:`.                   *)
(***************************************************************************)
MaxPatToks == 3

MaxPatTokLen == 2

MaxDictWords == 2

PatChars == {"a", "b"}

PatTokens == UNION { [1..k -> PatChars] : k \in 1..MaxPatTokLen }

PatTags == {"v", "n"}

PatWords == { <<"a", "b">>, <<"b", "a">>, <<"b">> }

PatDocs ==
    UNION { { [token |-> t, pos |-> p] : t \in [1..k -> PatTokens], p \in [1..k -> PatTags] }
            : k \in 0..MaxPatToks }

PatInit ==
    /\ dwords \in SeqsUpTo(PatWords, MaxDictWords) \ { <<>> }
    /\ ddoc \in PatDocs
    /\ dop = "none"
    /\ dres = [token |-> <<>>, pos |-> <<>>]
    /\ FuseIdle
    /\ AlignIdle
    /\ CallIdle
    /\ CandIdle
    /\ PreIdle
    /\ ThreadIdle
    /\ RankIdle
    /\ TitleIdle

PreservePattern ==
    /\ dop = "none"
    /\ dop' = "done"
    /\ dres' = postproc_preserve_pattern(ddoc, dwords)
    /\ UNCHANGED <<dwords, ddoc, fvars, avars, cvars, gvars, pvars, tvars, rvars, uvars>>

PatNext == PreservePattern

SpecPattern == PatInit /\ [][PatNext]_vars

\* 0-based start and end of the k-th token in " ".join(token)
TokStart(token, k) == SumSeq([i \in 1..(k - 1) |-> Len(token[i]) + 1])

TokEnd(token, k) == TokStart(token, k) + Len(token[k])

\* the k-th token shares at least one character with an occurrence
CoveredBy(token, span, k) == TokStart(token, k) < span.e /\ TokEnd(token, k) > span.b

\* the last token of the run of covered tokens that starts at token k
RECURSIVE RunEnd(_, _, _)
RunEnd(token, spans, k) ==
    IF /\ k < Len(token)
       /\ \E q \in 1..Len(spans) : CoveredBy(token, spans[q], k)
                                   /\ CoveredBy(token, spans[q], k + 1)
    THEN RunEnd(token, spans, k + 1)
    ELSE k

\* the stream the claim describes, from token k on
RECURSIVE MergedFrom(_, _, _)
MergedFrom(doc, spans, k) ==
    IF k > Len(doc.token) THEN [token |-> <<>>, pos |-> <<>>]
    ELSE IF \E q \in 1..Len(spans) : CoveredBy(doc.token, spans[q], k)
         THEN LET j == RunEnd(doc.token, spans, k)
                  rest == MergedFrom(doc, spans, j + 1)
              IN  [token |-> <<Join(SubSeq(doc.token, k, j))>> \o rest.token,
                   pos |-> <<"n">> \o rest.pos]
         ELSE LET rest == MergedFrom(doc, spans, k + 1)
              IN  [token |-> <<doc.token[k]>> \o rest.token,
                   pos |-> <<doc.pos[k]>> \o rest.pos]

\* C21: with a dictionary of one phrase, the result is the input stream with
\* every maximal run of tokens covered by an occurrence of the phrase
\* replaced by one token (the texts concatenated) tagged 'n', and every
\* other token passed through once, in order; when the phrase does not
\* occur, the result is the input.
C21_SinglePhraseMergesCoveredRuns ==
    (dop = "done" /\ Len(preserve_pattern_gen(dwords)) = 1) =>
        dres = MergedFrom(ddoc, finditer(dwords[1], JoinSpace(ddoc.token), 0), 1)

\* C26: with a dictionary of two or more phrases, the concatenation of the
\* texts of the result equals the concatenation of the texts of the input.
C26_TwoPhrasesConserveStream ==
    (dop = "done" /\ Len(preserve_pattern_gen(dwords)) >= 2) =>
        Join(dres.token) = Join(ddoc.token)


(***************************************************************************)
(* candidate_generation_utils.Tokenization.__call__ with the hooks of      *)
(* candidate_generation_lac.LACTokenization.  A document is a title and a  *)
(* content.  The modelled alphabet is "a", "fa" (FULLWIDTH LATIN SMALL     *)
(* LETTER A), "bu" (a negation character) and " ": every character is in   *)
(* the class _preprocess keeps, and no URL, e-mail address or hashtag can  *)
(* be written with it, so _preprocess only strips.                         *)
(***************************************************************************)
\* unicodedata.normalize('NFKC', text)
nfkc(text) == [k \in 1..Len(text) |-> IF text[k] = "fa" THEN "a" ELSE text[k]]

\* LACTokenization._preprocess
cg_preprocess(text) == Strip(text)

\* the tag the engine gives a one-character token
lac_tag(c) == IF c = "bu" THEN "d" ELSE "v"

\* LACTokenization.tokenize: self.lac.run(text), an external engine taken
\* as a function of its text: one token per non-space character
RECURSIVE lac_run(_)
lac_run(text) ==
    IF text = <<>> THEN [token |-> <<>>, pos |-> <<>>]
    ELSE LET rest == lac_run(Tail(text))
         IN  IF Head(text) \in WhiteSpace THEN rest
             ELSE [token |-> << <<Head(text)>> >> \o rest.token,
                   pos |-> <<lac_tag(Head(text))>> \o rest.pos]

\* LACTokenization._postprocess of an instance built with custom_dict
cg_postprocess(doc, custom_dict) ==
    LET r == postprocess_lac(doc)
    IN  IF r.raised \/ custom_dict = <<>> THEN r
        ELSE LET d == postproc_preserve_pattern([token |-> r.token, pos |-> r.pos],
                                                custom_dict)
             IN  [raised |-> FALSE, token |-> d.token, pos |-> d.pos]

\* self._postprocess(self.tokenize(self._preprocess(self._normalize(text))))
cg_pipeline(text, custom_dict) ==
    cg_postprocess(lac_run(cg_preprocess(nfkc(text))), custom_dict)

NoTokens == [raised |-> FALSE, token |-> <<>>, pos |-> <<>>]

\* Tokenization.__call__(doc): the TextFeature returned, or the exception
\* of a hook
title_content_call(title, content, custom_dict) ==
    LET t == IF title # <<>> THEN cg_pipeline(title, custom_dict) ELSE NoTokens
        c == IF content # <<>> THEN cg_pipeline(title, custom_dict) ELSE NoTokens
    IN  IF t.raised \/ c.raised
        THEN [state |-> "raised", title_tokens |-> <<>>, title_pos |-> <<>>,
              content_tokens |-> <<>>, content_pos |-> <<>>]
        ELSE [state |-> "returned", title_tokens |-> t.token, title_pos |-> t.pos,
              content_tokens |-> c.token, content_pos |-> c.pos]

(***************************************************************************)
(* Specification SpecTitle: __call__ on two documents that have the same   *)
(* content and any two titles, by an instance without custom dictionary.   *)
(***************************************************************************)
MaxTitleLen == 2

TitleChars == {"a", "fa", "bu", " "}

TitleTexts == SeqsUpTo(TitleChars, MaxTitleLen)

TitleInit ==
    /\ utitle \in [Docs -> TitleTexts]
    /\ ucontent \in TitleTexts
    /\ ures = [i \in Docs |-> NoFeature]
    /\ FuseIdle
    /\ AlignIdle
    /\ CallIdle
    /\ CandIdle
    /\ PreIdle
    /\ ThreadIdle
    /\ RankIdle
    /\ PatIdle

CallOnDoc(i) ==
    /\ ures[i].state = "none"
    /\ ures' = [ures EXCEPT ![i] = title_content_call(utitle[i], ucontent, <<>>)]
    /\ UNCHANGED <<utitle, ucontent, fvars, avars, cvars, gvars, pvars, tvars, rvars, dvars>>

TitleNext == \E i \in Docs : CallOnDoc(i)

SpecTitle == TitleInit /\ [][TitleNext]_vars

\* the tokens and tags of one text field on its own
FieldTokens(text) == IF text # <<>> THEN cg_pipeline(text, <<>>) ELSE NoTokens

\* C30: the content tokens of a returned TextFeature are the tokens of the
\* document's content and the title tokens those of its title, so two
\* documents with the same content and different titles have the same
\* content tokens.
C30_ContentTokensIgnoreTitle ==
    /\ \A i \in Docs :
           ures[i].state = "returned" =>
               /\ ures[i].title_tokens = FieldTokens(utitle[i]).token
               /\ ures[i].title_pos = FieldTokens(utitle[i]).pos
               /\ ures[i].content_tokens = FieldTokens(ucontent).token
               /\ ures[i].content_pos = FieldTokens(ucontent).pos
    /\ (ures[1].state = "returned" /\ ures[2].state = "returned") =>
           /\ ures[1].content_tokens = ures[2].content_tokens
           /\ ures[1].content_pos = ures[2].content_pos

====
